---------------------------- MODULE Spec2Model ----------------------------
(***************************************************************************)
(* A model of korppluginlib's callback plugins                             *)
(* (src/korppluginlib/_callbackplugin.py): the metaclass that registers    *)
(* the callback methods of every KorpCallbackPlugin subclass, the          *)
(* singleton instances of the plugin classes, the per-request              *)
(* KorpCallbackPluginCaller with its class-level table of instances, and   *)
(* the three dispatch methods call, call_collect and call_chain.           *)
(*                                                                         *)
(* Python objects are modelled as tagged tuples, names as tuples of        *)
(* characters (so that name[0].islower() is computed, not assumed).        *)
(***************************************************************************)
EXTENDS Integers, Sequences, FiniteSets, TLC

VARIABLES
    _subclasses,          \* KorpCallbackPlugin._subclasses: list of classes
    _callbacks,           \* KorpCallbackPlugin._callbacks: hook point -> list
    Singleton_instances,  \* Singleton._instances: class -> its instance
    ctor_runs,            \* per class: how often its constructor has run
    callers,              \* the KorpCallbackPluginCaller objects made so far
    Caller_instances,     \* KorpCallbackPluginCaller._instances
    cleaned_up,           \* the Callers whose cleanup() has returned
    last,                 \* what the most recent operation did and returned
    flask_request,        \* the object the global request proxy stands for
    endpoint,             \* request object -> its endpoint attribute
    alive,                \* the request objects that exist
    dropped,              \* the Callers only the table of instances may hold
    prev,                 \* the dispatch before the most recent operation
    threads,              \* per request-handling thread: where it is
    plugin_configs,       \* _configutil.plugin_configs: plugin -> namespace
    _plugin_configs_expanded, \* the plugins get_plugin_config has expanded
    expansions,           \* plugin -> its first get_plugin_config call
    added_configs,        \* plugin -> what add_plugin_config got last
    pluginlibconf,        \* _configutil.pluginlibconf
    loaded_plugins,       \* _pluginloader.loaded_plugins, in load order
    app_globals,          \* _pluginloader.app_globals
    _endpoint_decorators, \* KorpEndpointPlugin._endpoint_decorators
    _instances,           \* KorpEndpointPlugin._instances
    url_map,              \* app.url_map._rules
    sys_modules,          \* the plugin modules imported so far
    sys_path,             \* sys.path
    loads,                \* how many calls of load() have got to the plugins
    functionplugin        \* the module korpplugins._functionplugin: the
                          \* attributes of its classes

\* the state of the modules _configutil and _pluginloader
config_state ==
    <<plugin_configs, _plugin_configs_expanded, expansions, added_configs>>

loader_state ==
    <<pluginlibconf, loaded_plugins, app_globals, _endpoint_decorators,
      _instances, url_map, sys_modules, sys_path, loads>>

host == <<config_state, loader_state, functionplugin>>

vars == <<_subclasses, _callbacks, Singleton_instances, ctor_runs,
          callers, Caller_instances, cleaned_up, last,
          flask_request, endpoint, alive, dropped, prev, threads, host>>

-----------------------------------------------------------------------------
(* Bounds of the model *)

MaxCallers == 2      \* Caller objects constructed in one run
MaxArgs == 1         \* positional arguments a dispatch passes on
MaxAddresses == 2    \* addresses the allocator has for request objects

-----------------------------------------------------------------------------
(* Python values *)

None == <<"NoneType">>
PyInt(n) == <<"int", n>>
PyDict(key, value) == <<"dict", key, value>>
Request(n) == <<"Request", n>>
Exception(name) == <<"Exception", name>>

\* id with one value for all objects
id_shared(obj) == 1

\* id(obj) of a request object: its address, distinct for objects that
\* exist at the same time; an address is used again for a later object
id(obj) ==
    CASE obj[1] = "Request" -> ((obj[2] - 1) % MaxAddresses) + 1
      [] obj[1] = "LocalProxy" -> MaxAddresses + 1 + obj[2]

\* The request objects of the environment that exist throughout
Requests == {Request(1), Request(2)}

\* The request objects that come and go: one more than there are addresses
HeapRequests == {Request(n) : n \in 1..(MaxAddresses + 1)}

AllRequests == Requests \cup HeapRequests

\* request.endpoint as the request was received
request_endpoint_received(request) ==
    IF request = Request(1) THEN "info" ELSE "query"

\* request.endpoint; "None" stands for None, the endpoint of a request
\* whose URL matches no route
request_endpoint(request) == endpoint[request]

Endpoints == {"info", "query", "None"}

\* The result of a Python call: a returned value or a raised exception
Return(v) == [raised |-> FALSE, value |-> v]
Raise(e) == [raised |-> TRUE, value |-> e]

-----------------------------------------------------------------------------
(* Names *)

Lower == {"a", "b", "c", "d", "e", "f", "g", "h", "i", "j", "k", "l", "m",
          "n", "o", "p", "q", "r", "s", "t", "u", "v", "w", "x", "y", "z"}

\* str.islower() of a one-character string
islower(ch) == ch \in Lower

applies_to_name == <<"a","p","p","l","i","e","s","_","t","o">>
enter_handler == <<"e","n","t","e","r","_","h","a","n","d","l","e","r">>
filter_result == <<"f","i","l","t","e","r","_","r","e","s","u","l","t">>
filter_args == <<"f","i","l","t","e","r","_","a","r","g","s">>
hook_x == <<"x">>
hook_y == <<"y">>
hook_w == <<"w">>
nonexistent_hook == <<"n","o","n","e","x","i","s","t","e","n","t">>
dunder_module == <<"_","_","m","o","d","u","l","e","_","_">>
dunder_qualname == <<"_","_","q","u","a","l","n","a","m","e","_","_">>
dunder_doc == <<"_","_","d","o","c","_","_">>
dunder_init == <<"_","_","i","n","i","t","_","_">>
under_data == <<"_","d","a","t","a">>
under_helper == <<"_","h","e","l","p","e","r">>
Upper_Helper == <<"H","e","l","p","e","r">>
lower_version == <<"v","e","r","s","i","o","n">>

\* The hook-point names a dispatch is tried with
HookPoints == {hook_x, hook_y, hook_w, enter_handler, filter_result,
               nonexistent_hook}


-----------------------------------------------------------------------------
(* The plugin classes that may be defined: their class bodies.  An attribute
   is a method with a body, or a value that is not callable.  The classes
   are Test2, Test3, Test4a and Test4b of src/korpplugins/test2.py, where
   Test2, Test3 and Test4a also have callbacks for the hook points x, y
   and w: returning a constant, returning None and raising. *)

Method(body) == [callable |-> TRUE, body |-> body]
Value == [callable |-> FALSE, body |-> <<"value">>]

KorpCallbackPlugin == "KorpCallbackPlugin"
object == "object"

PluginClasses == {"Test2", "Test3", "Test4a", "Test4b"}

\* with Test5, a plugin like Test4a whose applies_to calls a method of
\* request.endpoint, which raises AttributeError when the endpoint is None
AllClasses ==
    PluginClasses \cup {"Test5", "Test6", "Test7", "Test8", "Test9",
                        "QueryContentHider"}

\* Test6 is a plugin whose callbacks call a method of their first argument,
\* as QueryContentHider.filter_result does (result.get); Test7 is a plugin
\* whose __init__ raises; Test8 is a plugin whose callback assigns to the
\* request what applies_to of Test4a and Test4b reads; Test9 is a plugin
\* derived from Test2, "class Test9(Test2)", that overrides the callback
\* for w; QueryContentHider is the class of
\* src/korpplugins/contenthider/__init__.py

\* the class statements: class -> attrs, name -> attribute
ClassBodies ==
    [cls \in {object, KorpCallbackPlugin} \cup AllClasses |->
    CASE cls = object ->
            (dunder_init :> Method(<<"none">>)) @@ (dunder_doc :> Value)
      [] cls = KorpCallbackPlugin ->
            (dunder_module :> Value) @@ (dunder_qualname :> Value)
            @@ (dunder_doc :> Value)
            @@ (applies_to_name :> Method(<<"predicate", "true">>))
      [] cls = "Test2" ->
            (filter_result :> Method(<<"wrap", "wrap2">>))
            @@ (hook_x :> Method(<<"return", PyInt(7)>>))
            @@ (hook_y :> Method(<<"return", PyInt(1)>>))
            @@ (hook_w :> Method(<<"return", PyInt(3)>>))
      [] cls = "Test3" ->
            (dunder_doc :> Value)
            @@ (enter_handler :> Method(<<"none">>))
            @@ (filter_result :> Method(<<"none">>))
            @@ (hook_x :> Method(<<"none">>))
            @@ (hook_y :> Method(<<"none">>))
            @@ (hook_w :> Method(<<"raise">>))
            @@ (under_data :> Value)
            @@ (under_helper :> Method(<<"none">>))
            @@ (Upper_Helper :> Method(<<"return", PyInt(8)>>))
            @@ (lower_version :> Value)
      [] cls = "Test4a" ->
            (dunder_doc :> Value)
            @@ (applies_to_name :> Method(<<"predicate", "info">>))
            @@ (enter_handler :> Method(<<"none">>))
            @@ (filter_result :> Method(<<"wrap", "info">>))
            @@ (hook_x :> Method(<<"return", PyInt(10)>>))
            @@ (hook_y :> Method(<<"return", PyInt(2)>>))
            @@ (hook_w :> Method(<<"return", PyInt(4)>>))
      [] cls = "Test4b" ->
            (dunder_doc :> Value)
            @@ (applies_to_name :> Method(<<"predicate", "not info">>))
            @@ (enter_handler :> Method(<<"none">>))
      [] cls = "Test5" ->
            (dunder_doc :> Value)
            @@ (applies_to_name :> Method(<<"predicate", "startswith">>))
            @@ (enter_handler :> Method(<<"none">>))
            @@ (hook_x :> Method(<<"return", PyInt(9)>>))
      [] cls = "Test6" ->
            (dunder_doc :> Value)
            @@ (filter_result :> Method(<<"get">>))
            @@ (hook_x :> Method(<<"get">>))
      [] cls = "Test7" ->
            (dunder_doc :> Value)
            @@ (dunder_init :> Method(<<"raise">>))
            @@ (filter_result :> Method(<<"none">>))
            @@ (hook_x :> Method(<<"return", PyInt(6)>>))
      [] cls = "Test8" ->
            (dunder_doc :> Value)
            @@ (enter_handler :> Method(<<"set", "info">>))
      [] cls = "Test9" ->
            (dunder_doc :> Value)
            @@ (hook_w :> Method(<<"return", PyInt(5)>>))
      [] cls = "QueryContentHider" ->
            (dunder_doc :> Value)
            @@ (applies_to_name :> Method(<<"predicate", "hidden">>))
            @@ (filter_args :> Method(<<"wrap", "show_struct">>))
            @@ (filter_result :> Method(<<"get">>))]

\* the definitions of applies_to that are decorated with @classmethod
classmethods == {KorpCallbackPlugin, "Test4a", "Test4b", "Test5"}

\* what a function that is looked up on a class is bound to: nothing
unbound == "function"

\* attrs of the class statement of cls
ClassAttrs(cls) == ClassBodies[cls]

\* the base class of the class statement
Base(cls) ==
    CASE cls = KorpCallbackPlugin -> object
      [] cls = "Test9" -> "Test2"
      [] cls \in AllClasses \ {"Test9"} -> KorpCallbackPlugin

\* the method resolution order of cls
RECURSIVE mro(_)
mro(cls) == IF cls = object THEN <<object>> ELSE <<cls>> \o mro(Base(cls))

\* dir with the names of the class itself and of KorpCallbackPlugin and
\* object only
dir_own(cls) ==
    UNION {DOMAIN ClassAttrs(c) : c \in {cls, KorpCallbackPlugin, object}}

\* dir(inst) for an instance of cls: the names found along the mro
dir(cls) == UNION {DOMAIN ClassAttrs(mro(cls)[i]) : i \in 1..Len(mro(cls))}

\* the class along the mro of cls that defines name
owner(cls, name) ==
    LET m == mro(cls)
        i == CHOOSE i \in 1..Len(m) :
                 /\ name \in DOMAIN ClassAttrs(m[i])
                 /\ \A j \in 1..(i - 1) : name \notin DOMAIN ClassAttrs(m[j])
    IN m[i]

\* getattr(inst, name): a method is bound to inst, a value is returned as is
getattr(inst, name) ==
    LET def == owner(inst.cls, name)
        a == ClassAttrs(def)[name]
    IN [callable |-> a.callable, im_self |-> inst,
        qualname |-> <<def, name>>, body |-> a.body]

\* bound_applies_to taking KorpCallbackPlugin.applies_to for every class
bound_applies_to_base(cls) ==
    [im_self |-> cls, qualname |-> <<KorpCallbackPlugin, applies_to_name>>,
     body |-> ClassAttrs(KorpCallbackPlugin)[applies_to_name].body]

\* cls.applies_to: a classmethod is bound to cls; a plain function (def
\* applies_to(self, request) with no decorator) is returned as it is
bound_applies_to(cls) ==
    LET def == owner(cls, applies_to_name)
    IN [im_self |-> IF def \in classmethods THEN cls ELSE unbound,
        qualname |-> <<def, applies_to_name>>,
        body |-> ClassAttrs(def)[applies_to_name].body]

\* _base_methods with no name recorded
_base_methods_none == {}

\* KorpCallbackPlugin._base_methods, set when the base class is created
_base_methods == DOMAIN ClassAttrs(KorpCallbackPlugin)

-----------------------------------------------------------------------------
(* Calling a method of a plugin: what its body does with the arguments *)

\* pluginconf.HIDDEN_STRUCT_NAMES of the plugin contenthider
HIDDEN_STRUCT_NAMES == plugin_configs["contenthider"]["HIDDEN_STRUCT_NAMES"]

\* func applied to posargs and kwargs for a bound method or classmethod of a plugin
PyCall(func, posargs, kwargs) ==
    CASE func.body[1] = "predicate" /\ func.im_self = unbound ->
            \* def applies_to(self, request) called as a function: the
            \* first argument is taken for self; without a second one the
            \* call raises TypeError (missing argument 'request')
            IF Len(posargs) < 2 THEN Raise(Exception("TypeError"))
            ELSE Return(HIDDEN_STRUCT_NAMES # <<>>
                        /\ request_endpoint(posargs[2])
                              \in {"query", "relations_sentences"})
      [] func.body[1] = "predicate" /\ func.im_self # unbound ->
            \* applies_to(cls, request)
            (CASE func.body[2] = "true" -> Return(TRUE)
               [] func.body[2] = "info" ->
                     Return(request_endpoint(posargs[1]) = "info")
               [] func.body[2] = "not info" ->
                     Return(request_endpoint(posargs[1]) # "info")
               [] func.body[2] = "startswith" ->
                     \* request_obj.endpoint.startswith("info")
                     IF request_endpoint(posargs[1]) = "None"
                     THEN Raise(Exception("AttributeError"))
                     ELSE Return(request_endpoint(posargs[1]) = "info"))
      [] func.body[1] = "return" -> Return(func.body[2])
      [] func.body[1] = "none" -> Return(None)
      [] func.body[1] = "raise" -> Raise(Exception("PluginError"))
      [] func.body[1] = "set" -> Return(None)
      [] func.body[1] = "wrap" -> Return(PyDict(func.body[2], posargs[1]))
      [] func.body[1] = "get" ->
            \* result.get(...); return result
            IF posargs[1][1] = "dict" THEN Return(posargs[1])
            ELSE Raise(Exception("AttributeError"))

\* the endpoints of the requests after func was called with posargs, the
\* request being the last of them: a callback with the body "set" has
\* assigned to it, every other one leaves the requests as they are
request_after(func, posargs) ==
    IF func.body[1] = "set"
    THEN [endpoint EXCEPT ![posargs[Len(posargs)]] = func.body[2]]
    ELSE endpoint

-----------------------------------------------------------------------------
(* Singleton and KorpCallbackPluginMetaclass *)

\* Singleton_call without the test for an instance made before
Singleton_call_new(cls, instances, runs) ==
    LET inst == [cls |-> cls, serial |-> runs[cls] + 1]
    IN [instances |-> (cls :> inst) @@ instances,
        runs |-> [runs EXCEPT ![cls] = @ + 1],
        raised |-> FALSE, result |-> inst]

\* super().__call__() of Singleton.__call__: the __init__ found along the
\* mro of cls is called on the new object
type_call(cls) ==
    PyCall([body |-> ClassAttrs(owner(cls, dunder_init))[dunder_init].body,
            im_self |-> cls], <<>>, <<>>)

\* Singleton.__call__(cls): the instance of cls, created on the first call;
\* when the constructor raises, nothing is stored and the exception leaves
\* the call
Singleton_call(cls, instances, runs) ==
    IF cls \notin DOMAIN instances
    THEN LET inst == [cls |-> cls, serial |-> runs[cls] + 1]
             init == type_call(cls)
         IN IF init.raised
            THEN [instances |-> instances,
                  runs |-> [runs EXCEPT ![cls] = @ + 1],
                  raised |-> TRUE, result |-> init.value]
            ELSE [instances |-> (cls :> inst) @@ instances,
                  runs |-> [runs EXCEPT ![cls] = @ + 1],
                  raised |-> FALSE, result |-> inst]
    ELSE [instances |-> instances, runs |-> runs,
          raised |-> FALSE, result |-> instances[cls]]

\* defaultdict_append with the entry put first: insert(0, entry)
defaultdict_append_first(cbs, name, entry) ==
    IF name \in DOMAIN cbs
    THEN [cbs EXCEPT ![name] = <<entry>> \o @]
    ELSE (name :> <<entry>>) @@ cbs

\* cls._callbacks[name].append(entry) on the defaultdict(list)
defaultdict_append(cbs, name, entry) ==
    IF name \in DOMAIN cbs
    THEN [cbs EXCEPT ![name] = Append(@, entry)]
    ELSE (name :> <<entry>>) @@ cbs

\* the loop of KorpCallbackPluginMetaclass.__init__ over dir(inst)
RECURSIVE register(_, _, _, _)
register(names, inst, cls, cbs) ==
    IF names = {} THEN cbs
    ELSE LET name == CHOOSE n \in names : TRUE
             attr == getattr(inst, name)
         IN register(names \ {name}, inst, cls,
                IF /\ islower(name[1])
                   /\ attr.callable
                   /\ name \notin _base_methods
                THEN defaultdict_append(cbs, name,
                                        <<attr, bound_applies_to(cls)>>)
                ELSE cbs)

\* subclass_branch with the loop run although the constructor has raised
subclass_branch_caught(cls, made, cbs) ==
    register(dir(cls), [cls |-> cls, serial |-> 1], cls, cbs)

\* the statements of the subclass branch after "inst = cls()": they are
\* run when the call has returned
subclass_branch(cls, made, cbs) ==
    IF made.raised THEN cbs
    ELSE register(dir(cls), made.result, cls, cbs)

\* No operation is under way: the code that made the last call has gone on
Idle == last.op = "idle"

\* the range of a sequence
Range(seq) == {seq[i] : i \in 1..Len(seq)}

\* A class statement "class cls(KorpCallbackPlugin)", or "class cls(base)"
\* for a plugin class base defined before: the metaclass's __init__ runs
\* its subclass branch
DefineClass(cls) ==
    /\ Idle
    /\ cls \notin Range(_subclasses)
    /\ Base(cls) \in Range(_subclasses) \cup {KorpCallbackPlugin}
    /\ LET made == Singleton_call(cls, Singleton_instances, ctor_runs)
       IN /\ _subclasses' = Append(_subclasses, cls)
          /\ Singleton_instances' = made.instances
          /\ ctor_runs' = made.runs
          /\ _callbacks' = subclass_branch(cls, made, _callbacks)
          /\ last' = [op |-> "class", cls |-> cls,
                      result |-> IF made.raised THEN Raise(made.result)
                                 ELSE Return(None)]
    /\ UNCHANGED <<callers, Caller_instances, cleaned_up>>

\* A later call cls() of a defined plugin class
Instantiate(cls) ==
    /\ Idle
    /\ cls \in Range(_subclasses)
    /\ LET made == Singleton_call(cls, Singleton_instances, ctor_runs)
       IN /\ Singleton_instances' = made.instances
          /\ ctor_runs' = made.runs
          /\ last' = [op |-> "instantiate", cls |-> cls,
                      result |-> IF made.raised THEN Raise(made.result)
                                 ELSE Return(made.result)]
    /\ UNCHANGED <<_subclasses, _callbacks, callers, Caller_instances,
                   cleaned_up>>

-----------------------------------------------------------------------------
(* KorpCallbackPluginCaller: construction, lookup, cleanup *)

KeyError == Exception("KeyError")

\* a proxy bound to the request object obj
LocalProxy(obj) == <<"LocalProxy", obj[2]>>

\* flask.request: the global proxy, bound to the request being handled
flask_request_proxy == <<"LocalProxy", 0>>

\* request._get_current_object()
_get_current_object(request) ==
    IF request = flask_request_proxy THEN flask_request
    ELSE Request(request[2])

\* _get_request_obj returning the handle without asking it for its object
_get_request_obj_handle(request) ==
    IF request = None THEN flask_request_proxy ELSE request

\* _get_request_obj(request): None stands for the global proxy; a proxy
\* gives its current object; a request object has no _get_current_object,
\* the AttributeError is caught and the object itself is returned
_get_request_obj(request) ==
    LET handle == IF request = None THEN flask_request_proxy ELSE request
    IN IF handle[1] = "LocalProxy" THEN _get_current_object(handle)
       ELSE handle

\* d.setdefault(key, value): an entry that exists is kept
dict_setdefault(d, key, value) ==
    IF key \in DOMAIN d THEN d ELSE (key :> value) @@ d

\* d[key] = value
dict_setitem(d, key, value) == (key :> value) @@ d

\* KorpCallbackPluginCaller(request)
Caller_init(request) ==
    /\ Idle
    /\ Len(callers) < MaxCallers
    /\ LET self == Len(callers) + 1
           obj == _get_request_obj(request)
       IN /\ callers' = Append(callers, [_request |-> obj])
          /\ Caller_instances' = dict_setitem(Caller_instances, id(obj), self)
          /\ last' = [op |-> "__init__", request |-> request,
                      result |-> Return(self)]
    /\ UNCHANGED <<_subclasses, _callbacks, Singleton_instances, ctor_runs,
                   cleaned_up>>

\* the value of KorpCallbackPluginCaller.get_instance(request)
get_instance_result(request) ==
    LET request_obj == _get_request_obj(request)
    IN IF id(request_obj) \in DOMAIN Caller_instances
       THEN Return(Caller_instances[id(request_obj)])
       ELSE Raise(KeyError)

\* KorpCallbackPluginCaller.get_instance(request)
get_instance(request) ==
    /\ Idle
    /\ last' = [op |-> "get_instance", request |-> request,
                result |-> get_instance_result(request)]
    /\ UNCHANGED <<_subclasses, _callbacks, Singleton_instances, ctor_runs,
                   callers, Caller_instances, cleaned_up>>

\* cleanup that leaves the entry of the table where it is
cleanup_keep(self) ==
    /\ Idle
    /\ self \in 1..Len(callers)
    /\ cleaned_up' = cleaned_up \cup {self}
    /\ last' = [op |-> "cleanup", self |-> self, result |-> Return(None)]
    /\ UNCHANGED <<_subclasses, _callbacks, Singleton_instances, ctor_runs,
                   callers, Caller_instances>>

\* cleanup that takes the entry out if there is one, and raises nothing
cleanup_discard(self) ==
    /\ Idle
    /\ self \in 1..Len(callers)
    /\ LET key == id(callers[self]._request)
       IN /\ Caller_instances' =
                 [k \in DOMAIN Caller_instances \ {key} |->
                     Caller_instances[k]]
          /\ cleaned_up' = cleaned_up \cup {self}
          /\ last' = [op |-> "cleanup", self |-> self,
                      result |-> Return(None)]
    /\ UNCHANGED <<_subclasses, _callbacks, Singleton_instances, ctor_runs,
                   callers>>

\* self.cleanup()
cleanup(self) ==
    /\ Idle
    /\ self \in 1..Len(callers)
    /\ LET key == id(callers[self]._request)
       IN IF key \in DOMAIN Caller_instances
          THEN /\ Caller_instances' =
                      [k \in DOMAIN Caller_instances \ {key} |->
                          Caller_instances[k]]
               /\ cleaned_up' = cleaned_up \cup {self}
               /\ last' = [op |-> "cleanup", self |-> self,
                           result |-> Return(None)]
          ELSE /\ UNCHANGED <<Caller_instances, cleaned_up>>
               /\ last' = [op |-> "cleanup", self |-> self,
                           result |-> Raise(KeyError)]
    /\ UNCHANGED <<_subclasses, _callbacks, Singleton_instances, ctor_runs,
                   callers>>

-----------------------------------------------------------------------------
(* KorpCallbackPluginCaller: the three dispatch methods.  Each method gives
   its result and the trace of the calls it made: the applies_to calls and
   the callback calls, in order. *)

\* KorpCallbackPlugin._callbacks.get(hook_point, [])
callbacks_get(hook_point) ==
    IF hook_point \in DOMAIN _callbacks THEN _callbacks[hook_point] ELSE <<>>

\* the record of one call made by a dispatch
Event(ev, func, posargs, kwargs, result) ==
    [ev |-> ev, func |-> func, args |-> posargs, kwargs |-> kwargs,
     result |-> result]

\* propagates with every exception caught in the loop body
propagates_never(outcome) == FALSE

\* an exception raised in the loop body is not caught: it leaves the method
propagates(outcome) == outcome.raised

\* callback_args with the request put first
callback_args_first(args, request) == <<request>> \o args

\* the positional arguments of callback with args, then self._request, then kwargs
callback_args(args, request) == args \o <<request>>

\* those of callback with arg1, args, then self._request, then kwargs
chain_args(arg1, args, request) == <<arg1>> \o args \o <<request>>

\* collect_retval without the test for None
collect_retval_any(result, retval) == Append(result, retval)

\* if retval is not None: result.append(retval)
collect_retval(result, retval) ==
    IF retval # None THEN Append(result, retval) ELSE result

\* "if applies_to(self._request)": the truth value of what applies_to
\* has returned
truth(outcome) == ~outcome.raised /\ outcome.value = TRUE

\* chain_retval without the test for None
chain_retval_any(arg1, retval) == retval

\* if retval is not None: arg1 = retval
chain_retval(arg1, retval) == IF retval # None THEN retval ELSE arg1

\* the loop of call(), from the i-th registration on
RECURSIVE call_loop(_, _, _, _, _, _)
call_loop(regs, i, request, args, kwargs, trace) ==
    IF i > Len(regs) THEN [result |-> Return(None), trace |-> trace]
    ELSE LET callback == regs[i][1]
             applies_to == regs[i][2]
             applies == PyCall(applies_to, <<request>>, <<>>)
             trace1 == Append(trace, Event("applies_to", applies_to,
                                           <<request>>, <<>>, applies))
             posargs == callback_args(args, request)
             retval == PyCall(callback, posargs, kwargs)
             trace2 == Append(trace1, Event("callback", callback, posargs,
                                            kwargs, retval))
         IN IF propagates(applies)
            THEN [result |-> applies, trace |-> trace1]
            ELSE IF ~truth(applies)
            THEN call_loop(regs, i + 1, request, args, kwargs, trace1)
            ELSE IF propagates(retval)
            THEN [result |-> retval, trace |-> trace2]
            ELSE call_loop(regs, i + 1, request, args, kwargs, trace2)

\* the loop of call_collect(), from the i-th registration on
RECURSIVE call_collect_loop(_, _, _, _, _, _, _)
call_collect_loop(regs, i, request, args, kwargs, result, trace) ==
    IF i > Len(regs) THEN [result |-> Return(result), trace |-> trace]
    ELSE LET callback == regs[i][1]
             applies_to == regs[i][2]
             applies == PyCall(applies_to, <<request>>, <<>>)
             trace1 == Append(trace, Event("applies_to", applies_to,
                                           <<request>>, <<>>, applies))
             posargs == callback_args(args, request)
             retval == PyCall(callback, posargs, kwargs)
             trace2 == Append(trace1, Event("callback", callback, posargs,
                                            kwargs, retval))
         IN IF propagates(applies)
            THEN [result |-> applies, trace |-> trace1]
            ELSE IF ~truth(applies)
            THEN call_collect_loop(regs, i + 1, request, args, kwargs,
                                   result, trace1)
            ELSE IF propagates(retval)
            THEN [result |-> retval, trace |-> trace2]
            ELSE call_collect_loop(regs, i + 1, request, args, kwargs,
                                   collect_retval(result, retval.value),
                                   trace2)

\* the loop of call_chain(), from the i-th registration on
RECURSIVE call_chain_loop(_, _, _, _, _, _, _)
call_chain_loop(regs, i, request, arg1, args, kwargs, trace) ==
    IF i > Len(regs) THEN [result |-> Return(arg1), trace |-> trace]
    ELSE LET callback == regs[i][1]
             applies_to == regs[i][2]
             applies == PyCall(applies_to, <<request>>, <<>>)
             trace1 == Append(trace, Event("applies_to", applies_to,
                                           <<request>>, <<>>, applies))
             posargs == chain_args(arg1, args, request)
             retval == PyCall(callback, posargs, kwargs)
             trace2 == Append(trace1, Event("callback", callback, posargs,
                                            kwargs, retval))
         IN IF propagates(applies)
            THEN [result |-> applies, trace |-> trace1]
            ELSE IF ~truth(applies)
            THEN call_chain_loop(regs, i + 1, request, arg1, args, kwargs,
                                 trace1)
            ELSE IF propagates(retval)
            THEN [result |-> retval, trace |-> trace2]
            ELSE call_chain_loop(regs, i + 1, request,
                                 chain_retval(arg1, retval.value),
                                 args, kwargs, trace2)

\* the body of call(): the result and the trace
call_method(self, hook_point, args, kwargs) ==
    call_loop(callbacks_get(hook_point), 1, callers[self]._request,
              args, kwargs, <<>>)

\* call_collect_method with the loop starting at the second registration
call_collect_method_from_second(self, hook_point, args, kwargs) ==
    call_collect_loop(callbacks_get(hook_point), 2, callers[self]._request,
                      args, kwargs, <<>>, <<>>)

\* the body of call_collect(): result = [], the loop, return result
call_collect_method(self, hook_point, args, kwargs) ==
    call_collect_loop(callbacks_get(hook_point), 1, callers[self]._request,
                      args, kwargs, <<>>, <<>>)

\* call_chain_method with _callbacks[hook_point] on a plain dict
call_chain_method_keyerror(self, hook_point, arg1, args, kwargs) ==
    IF hook_point \notin DOMAIN _callbacks
    THEN [result |-> Raise(Exception("KeyError")), trace |-> <<>>]
    ELSE call_chain_loop(_callbacks[hook_point], 1, callers[self]._request,
                         arg1, args, kwargs, <<>>)

\* the body of call_chain(): the loop, return arg1
call_chain_method(self, hook_point, arg1, args, kwargs) ==
    call_chain_loop(callbacks_get(hook_point), 1, callers[self]._request,
                    arg1, args, kwargs, <<>>)

\* the registry after _callbacks[hook_point]: a defaultdict makes an empty
\* list for a key it does not have
callbacks_after_getitem(hook_point) ==
    IF hook_point \in DOMAIN _callbacks THEN _callbacks
    ELSE (hook_point :> <<>>) @@ _callbacks

\* the registry after _callbacks.get(hook_point, []): get adds no key
callbacks_after_get(hook_point) == _callbacks

\* what a dispatch does to the state: it looks the hook point up, if it
\* gets that far, and assigns nothing
DispatchFrame(hook_point, looked_up) ==
    /\ _callbacks' = IF looked_up THEN callbacks_after_get(hook_point)
                     ELSE _callbacks
    /\ UNCHANGED <<_subclasses, Singleton_instances, ctor_runs,
                   callers, Caller_instances, cleaned_up>>

\* self.call(hook_point, args, kwargs)
call(self, hook_point, args, kwargs) ==
    /\ Idle
    /\ self \in 1..Len(callers)
    /\ LET done == call_method(self, hook_point, args, kwargs)
       IN last' = [op |-> "call", self |-> self, hook_point |-> hook_point,
                   args |-> args, kwargs |-> kwargs,
                   result |-> done.result, trace |-> done.trace]
    /\ DispatchFrame(hook_point, TRUE)

\* self.call_collect(hook_point, args, kwargs)
call_collect(self, hook_point, args, kwargs) ==
    /\ Idle
    /\ self \in 1..Len(callers)
    /\ LET done == call_collect_method(self, hook_point, args, kwargs)
       IN last' = [op |-> "call_collect", self |-> self,
                   hook_point |-> hook_point,
                   args |-> args, kwargs |-> kwargs,
                   result |-> done.result, trace |-> done.trace]
    /\ DispatchFrame(hook_point, TRUE)

\* self.call_chain(hook_point, arg1, args, kwargs)
call_chain(self, hook_point, arg1, args, kwargs) ==
    /\ Idle
    /\ self \in 1..Len(callers)
    /\ LET done == call_chain_method(self, hook_point, arg1, args, kwargs)
       IN last' = [op |-> "call_chain", self |-> self,
                   hook_point |-> hook_point, arg1 |-> arg1,
                   args |-> args, kwargs |-> kwargs,
                   result |-> done.result, trace |-> done.trace]
    /\ DispatchFrame(hook_point, TRUE)

-----------------------------------------------------------------------------
(* KorpCallbackPluginCaller: the class methods that look the Caller up.  The
   lookup is that of get_instance; when it raises KeyError, no dispatch
   method is called. *)

\* for_request_instance looking up the Caller of the global proxy always
for_request_instance_ambient(request) == get_instance_result(None)

\* cls.get_instance(request) in the three class methods
for_request_instance(request) == get_instance_result(request)

\* cls.call_for_request(hook_point, args, request=request, kwargs)
call_for_request(hook_point, args, request, kwargs) ==
    /\ Idle
    /\ LET inst == for_request_instance(request)
           done == IF inst.raised THEN [result |-> inst, trace |-> <<>>]
                   ELSE call_method(inst.value, hook_point, args, kwargs)
       IN last' = [op |-> "call_for_request", request |-> request,
                   hook_point |-> hook_point,
                   args |-> args, kwargs |-> kwargs,
                   result |-> done.result, trace |-> done.trace]
    /\ DispatchFrame(hook_point,
                     ~for_request_instance(request).raised)

\* cls.call_collect_for_request(hook_point, args, request=request, kwargs)
call_collect_for_request(hook_point, args, request, kwargs) ==
    /\ Idle
    /\ LET inst == for_request_instance(request)
           done == IF inst.raised THEN [result |-> inst, trace |-> <<>>]
                   ELSE call_collect_method(inst.value, hook_point, args,
                                            kwargs)
       IN last' = [op |-> "call_collect_for_request", request |-> request,
                   hook_point |-> hook_point,
                   args |-> args, kwargs |-> kwargs,
                   result |-> done.result, trace |-> done.trace]
    /\ DispatchFrame(hook_point,
                     ~for_request_instance(request).raised)

\* cls.call_chain_for_request(hook_point, arg1, args, request=request, kwargs)
call_chain_for_request(hook_point, arg1, args, request, kwargs) ==
    /\ Idle
    /\ LET inst == for_request_instance(request)
           done == IF inst.raised THEN [result |-> inst, trace |-> <<>>]
                   ELSE call_chain_method(inst.value, hook_point, arg1, args,
                                          kwargs)
       IN last' = [op |-> "call_chain_for_request", request |-> request,
                   hook_point |-> hook_point, arg1 |-> arg1,
                   args |-> args, kwargs |-> kwargs,
                   result |-> done.result, trace |-> done.trace]
    /\ DispatchFrame(hook_point,
                     ~for_request_instance(request).raised)

-----------------------------------------------------------------------------
(* The arguments the operations are tried with *)

\* n positional arguments
RECURSIVE ArgList(_)
ArgList(n) == IF n = 0 THEN <<>> ELSE Append(ArgList(n - 1), PyInt(3))

\* the arguments of a dispatch: none, or up to MaxArgs positional arguments
\* and a keyword argument
CallArgs ==
    {[args |-> <<>>, kwargs |-> <<>>]}
    \cup {[args |-> ArgList(n), kwargs |-> [starttime |-> PyInt(0)]] :
             n \in 1..MaxArgs}
ChainValues == {PyInt(5)}

-----------------------------------------------------------------------------
(* The state after importing korppluginlib: the base class exists, no plugin
   class is defined, no Caller is constructed *)

\* the modules _configutil and _pluginloader as imported: no plugin has a
\* configuration
ConfigInit ==
    /\ plugin_configs = <<>>
    /\ _plugin_configs_expanded = {}
    /\ expansions = <<>>
    /\ added_configs = <<>>

\* a routing rule of the application
Rule(rule, view) == [rule |-> rule, endpoint |-> view]

\* the routing rules of the endpoints of Korp itself
builtin_rules ==
    <<Rule("/info", <<"info">>), Rule("/query", <<"query">>)>>

\* _conf_defaults of _configutil
_conf_defaults ==
    [PACKAGES |-> <<"korpplugins">>,
     SEARCH_PATH |-> <<>>,
     LOAD_VERBOSITY |-> 1,
     HANDLE_NOT_FOUND |-> "warn",
     HANDLE_DUPLICATE_ROUTES |-> "override,warn"]

\* the modules _pluginloader and _endpointplugin as imported, and the
\* application before any plugin is loaded
LoaderInit ==
    /\ loaded_plugins = <<>>
    /\ app_globals = <<>>
    /\ _endpoint_decorators = <<>>
    /\ _instances = {}
    /\ url_map = builtin_rules
    /\ sys_modules = {}
    /\ sys_path = <<"">>
    /\ loads = 0

HostInit ==
    /\ ConfigInit
    /\ pluginlibconf = _conf_defaults
    /\ LoaderInit

\* the module korpplugins._functionplugin as imported: the registry
\* KorpFunctionPlugin._plugin_funcs and _subclasses, Singleton._instances,
\* the KorpFunctionPluginCaller objects made so far and
\* KorpFunctionPluginCaller._instances; last is what the most recent
\* operation on the module did and returned
functionplugin_imported ==
    [_plugin_funcs |-> <<>>, _subclasses |-> <<>>,
     Singleton_instances |-> <<>>, callers |-> <<>>, _instances |-> <<>>,
     last |-> [op |-> "idle"]]

\* the module _callbackplugin as imported, and the requests
CoreInit ==
    /\ _subclasses = <<>>
    /\ _callbacks = <<>>
    /\ Singleton_instances = <<>>
    /\ ctor_runs = [cls \in AllClasses |-> 0]
    /\ callers = <<>>
    /\ Caller_instances = <<>>
    /\ cleaned_up = {}
    /\ last = [op |-> "idle"]
    /\ flask_request = Request(1)
    /\ endpoint = [r \in AllRequests |-> request_endpoint_received(r)]
    /\ alive = Requests
    /\ dropped = {}
    /\ prev = [op |-> "idle"]
    /\ threads = <<>>
    /\ functionplugin = functionplugin_imported

Init == CoreInit /\ HostInit

\* What the environment of the operations leaves unchanged
EnvFrame == UNCHANGED <<flask_request, endpoint, alive, dropped, prev, threads, host>>

\* The code that made the last call goes on with its result
Resume ==
    /\ ~Idle
    /\ last' = [op |-> "idle"]
    /\ UNCHANGED <<_subclasses, _callbacks, Singleton_instances, ctor_runs,
                   callers, Caller_instances, cleaned_up>>

Next ==
    \/ Resume /\ EnvFrame
    \/ \E cls \in PluginClasses : DefineClass(cls) /\ EnvFrame
    \/ \E cls \in PluginClasses : Instantiate(cls) /\ EnvFrame
    \/ \E request \in Requests : Caller_init(request) /\ EnvFrame
    \/ \E request \in Requests : get_instance(request) /\ EnvFrame
    \/ \E self \in 1..MaxCallers : cleanup(self) /\ EnvFrame
    \/ \E self \in 1..MaxCallers, hook_point \in HookPoints,
          a \in CallArgs :
            call(self, hook_point, a.args, a.kwargs) /\ EnvFrame
    \/ \E self \in 1..MaxCallers, hook_point \in HookPoints,
          a \in CallArgs :
            call_collect(self, hook_point, a.args, a.kwargs) /\ EnvFrame
    \/ \E self \in 1..MaxCallers, hook_point \in HookPoints,
          arg1 \in ChainValues, a \in CallArgs :
            call_chain(self, hook_point, arg1, a.args, a.kwargs) /\ EnvFrame

Spec == Init /\ [][Next]_vars

-----------------------------------------------------------------------------
(* Requests given as proxies, as objects, or left out: the host framework
   binds the global proxy to the request being handled, and the code is
   given the object, a proxy bound to it, the global proxy or None. *)

\* the ways a request is given to the code
RequestHandles ==
    Requests \cup {LocalProxy(r) : r \in Requests}
             \cup {flask_request_proxy, None}

\* the plugin classes and hook points of this part
ProxyClasses == {"Test2", "Test4a"}
ProxyHookPoints == {hook_x, filter_result, nonexistent_hook}

\* the host framework starts to handle the request r in this thread
RequestContext(r) ==
    /\ Idle
    /\ flask_request # r
    /\ flask_request' = r
    /\ UNCHANGED <<_subclasses, _callbacks, Singleton_instances, ctor_runs,
                   callers, Caller_instances, cleaned_up, last,
                   endpoint, alive, dropped, prev, threads, host>>

ProxyNext ==
    \/ Resume /\ EnvFrame
    \/ \E r \in Requests : RequestContext(r)
    \/ \E cls \in ProxyClasses : DefineClass(cls) /\ EnvFrame
    \/ \E request \in RequestHandles : Caller_init(request) /\ EnvFrame
    \/ \E request \in RequestHandles : get_instance(request) /\ EnvFrame
    \/ \E self \in 1..MaxCallers : cleanup(self) /\ EnvFrame
    \/ \E hook_point \in ProxyHookPoints, request \in RequestHandles,
          a \in CallArgs :
            call_for_request(hook_point, a.args, request, a.kwargs)
               /\ EnvFrame
    \/ \E hook_point \in ProxyHookPoints, request \in RequestHandles,
          a \in CallArgs :
            call_collect_for_request(hook_point, a.args, request, a.kwargs)
               /\ EnvFrame
    \/ \E hook_point \in ProxyHookPoints, request \in RequestHandles,
          arg1 \in ChainValues, a \in CallArgs :
            call_chain_for_request(hook_point, arg1, a.args, request,
                                   a.kwargs)
               /\ EnvFrame

ProxySpec == Init /\ [][ProxyNext]_vars

-----------------------------------------------------------------------------
(* Request objects that come and go.  id(obj) is the address of obj: an
   object that nothing refers to any more is freed, and a request object
   made later may get its address.  A Caller refers to its request
   (self._request), the table of instances refers to the Callers in it, the
   code that handles a request refers to the Callers it has not let go of,
   and the host framework refers to the request it is handling. *)

\* referenced_requests with the Callers holding no reference
referenced_requests_weak == {flask_request}

\* the request objects something refers to
referenced_requests ==
    {flask_request}
    \cup {callers[c]._request :
             c \in {Caller_instances[key] : key \in DOMAIN Caller_instances}
                      \cup ((1..Len(callers)) \ dropped)}

\* a request object is made; the allocator gives it an address not in use
NewRequest(r) ==
    /\ Idle
    /\ r \notin alive
    /\ \A other \in alive : id(other) # id(r)
    /\ alive' = alive \cup {r}
    /\ last' = [op |-> "new_request", request |-> r]
    /\ UNCHANGED <<_subclasses, _callbacks, Singleton_instances, ctor_runs,
                   callers, Caller_instances, cleaned_up,
                   flask_request, endpoint, dropped, prev, threads, host>>

\* a request object nothing refers to is freed
FreeRequest(r) ==
    /\ Idle
    /\ r \in alive
    /\ r \notin referenced_requests
    /\ alive' = alive \ {r}
    /\ last' = [op |-> "free_request", request |-> r]
    /\ UNCHANGED <<_subclasses, _callbacks, Singleton_instances, ctor_runs,
                   callers, Caller_instances, cleaned_up,
                   flask_request, endpoint, dropped, prev, threads, host>>

\* the code that handles the request lets go of a Caller
DropCaller(c) ==
    /\ Idle
    /\ c \in (1..Len(callers)) \ dropped
    /\ dropped' = dropped \cup {c}
    /\ last' = [op |-> "drop", self |-> c]
    /\ UNCHANGED <<_subclasses, _callbacks, Singleton_instances, ctor_runs,
                   callers, Caller_instances, cleaned_up,
                   flask_request, endpoint, alive, prev, threads, host>>

\* get_instance gives its caller a reference to the Caller it returns
HeldAfterGetInstance ==
    /\ dropped' = IF last'.result.raised THEN dropped
                  ELSE dropped \ {last'.result.value}
    /\ UNCHANGED <<flask_request, endpoint, alive, prev, threads, host>>

HeapNext ==
    \/ Resume /\ EnvFrame
    \/ \E r \in HeapRequests : NewRequest(r)
    \/ \E r \in HeapRequests : FreeRequest(r)
    \/ \E c \in 1..MaxCallers : DropCaller(c)
    \/ \E r \in alive : RequestContext(r)
    \/ \E request \in alive : Caller_init(request) /\ EnvFrame
    \/ \E request \in alive : get_instance(request) /\ HeldAfterGetInstance
    \/ \E self \in (1..MaxCallers) \ dropped : cleanup(self) /\ EnvFrame

HeapSpec == Init /\ [][HeapNext]_vars

-----------------------------------------------------------------------------
(* What the properties below read off the last operation *)

Dispatched == last.op \in {"call", "call_collect", "call_chain"}

\* the callback calls of the last dispatch, in the order they were made
CallbackEvents == SelectSeq(last.trace, LAMBDA e : e.ev = "callback")

\* the request object of the Caller the last dispatch was called on
DispatchRequest == callers[last.self]._request

\* the plugin class whose singleton a registered callback is bound to
ClassOf(callback) == callback.im_self.cls

\* the position of a defined class in the order of the class definitions
ClassPos(cls) == CHOOSE i \in 1..Len(_subclasses) : _subclasses[i] = cls

\* the values of a sequence of call records that are not None, in order
RECURSIVE NonNullResults(_)
NonNullResults(events) ==
    IF events = <<>> THEN <<>>
    ELSE (IF Head(events).result.value # None
          THEN <<Head(events).result.value>> ELSE <<>>)
         \o NonNullResults(Tail(events))

\* the return values of a sequence of call records, in order
ReturnValues(events) == [k \in 1..Len(events) |-> events[k].result.value]

-----------------------------------------------------------------------------
(* C1: the callbacks of every hook point are registered in the order in
   which their plugin classes were defined, whatever other hook points and
   other classes there are, and call_collect calls them in that order and
   returns their results that are not None in that order: for classes A, B,
   C defined in this order, the results of A, B, C. *)
C1_CollectInDefinitionOrder ==
    /\ \A h \in DOMAIN _callbacks :
          \A i, j \in 1..Len(_callbacks[h]) :
             i < j => ClassPos(ClassOf(_callbacks[h][i][1]))
                        < ClassPos(ClassOf(_callbacks[h][j][1]))
    /\ (last.op = "call_collect" /\ ~last.result.raised) =>
          LET events == CallbackEvents
              \* the classes called with a result that is not None
              contributors == {k \in 1..Len(events) :
                                  events[k].result.value # None}
          IN /\ \A i, j \in 1..Len(events) :
                   i < j => ClassPos(ClassOf(events[i].func))
                              < ClassPos(ClassOf(events[j].func))
             /\ Len(last.result.value) = Cardinality(contributors)
             /\ \A n \in 1..Len(last.result.value) :
                   \E k \in contributors :
                      /\ Cardinality({m \in contributors : m < k}) = n - 1
                      /\ last.result.value[n] = events[k].result.value

C1_Witness ==
    /\ last.op = "call_collect"
    /\ last.hook_point = hook_y
    /\ _subclasses = <<"Test2", "Test4b", "Test3", "Test4a">>
    /\ Cardinality(DOMAIN _callbacks) > 1
    /\ last.result = Return(<<PyInt(1), PyInt(2)>>)

-----------------------------------------------------------------------------
(* C2: call_chain passes one running value through the callbacks it calls:
   each callback gets the running value as its first argument, a return
   value that is not None becomes the running value, None leaves it as it
   was after the callbacks before, and the last running value is returned.
   Callbacks returning 7, None, 10 on the initial value 5 give 10, and
   callbacks returning 7, None give 7. *)
RECURSIVE RunningValue(_, _, _)
RunningValue(events, k, v0) ==
    IF k = 0 THEN v0
    ELSE IF events[k].result.value # None THEN events[k].result.value
    ELSE RunningValue(events, k - 1, v0)

C2_ChainThreadsRunningValue ==
    last.op = "call_chain" =>
       LET events == CallbackEvents
           regs == callbacks_get(last.hook_point)
       IN /\ \A k \in 1..Len(events) :
                events[k].args[1] = RunningValue(events, k - 1, last.arg1)
          /\ \A k \in 1..Len(events) :
                \E i \in 1..Len(regs) :
                   /\ regs[i][1] = events[k].func
                   /\ \A m \in 1..(k - 1) :
                         \E j \in 1..(i - 1) : regs[j][1] = events[m].func
          /\ ~last.result.raised =>
                /\ last.result.value
                      = RunningValue(events, Len(events), last.arg1)
                /\ ReturnValues(events) = <<PyInt(7), None, PyInt(10)>>
                      => last.result.value = PyInt(10)
                /\ ReturnValues(events) = <<PyInt(7), None>>
                      => last.result.value = PyInt(7)

C2_Witness ==
    /\ last.op = "call_chain"
    /\ last.arg1 = PyInt(5)
    /\ ReturnValues(CallbackEvents) = <<PyInt(7), None, PyInt(10)>>
    /\ last.result = Return(PyInt(10))

-----------------------------------------------------------------------------
(* C3: call_collect returns the list of exactly the return values of the
   callbacks it called that are not None, in the order of the calls: None
   is never in the list (1, None, 2 give [1, 2]), and the list is empty
   when no callback was called or every callback returned None. *)
C3_CollectOmitsNone ==
    (last.op = "call_collect" /\ ~last.result.raised) =>
       /\ last.result.value = NonNullResults(CallbackEvents)
       /\ \A n \in 1..Len(last.result.value) : last.result.value[n] # None
       /\ (\A k \in 1..Len(CallbackEvents) :
              CallbackEvents[k].result.value = None)
             => last.result.value = <<>>
       /\ ReturnValues(CallbackEvents) = <<PyInt(1), None, PyInt(2)>>
             => last.result.value = <<PyInt(1), PyInt(2)>>

C3_Witness ==
    /\ last.op = "call_collect"
    /\ ReturnValues(CallbackEvents) = <<PyInt(1), None, PyInt(2)>>
    /\ last.result = Return(<<PyInt(1), PyInt(2)>>)

-----------------------------------------------------------------------------
(* C4: a dispatch calls a registered callback if and only if applies_to of
   the plugin class that registered it, called with the request of the
   Caller, returns true: applies_to of Test2 and Test3, which do not
   override it, is true of every request, that of Test4a only of the
   endpoint "info", that of Test4b of every other endpoint, so that of the
   enter_handler callbacks of Test4a and Test4b exactly one is called.  A
   dispatch that returns has called applies_to for every registration of
   the hook point. *)
AppliesTo(cls, request) ==
    CASE cls \in {"Test2", "Test3", "Test6", "Test7"} -> TRUE
      [] cls = "Test4a" -> request_endpoint(request) = "info"
      [] cls = "Test4b" -> request_endpoint(request) # "info"

\* the positions of the registrations of the dispatched hook point whose
\* callback the last dispatch called
CalledRegs ==
    {i \in 1..Len(callbacks_get(last.hook_point)) :
        \E k \in 1..Len(CallbackEvents) :
           CallbackEvents[k].func = callbacks_get(last.hook_point)[i][1]}

\* the applies_to calls of the last dispatch, in the order they were made
PredicateEvents == SelectSeq(last.trace, LAMBDA e : e.ev = "applies_to")

\* the positions of the registrations whose applies_to the last dispatch
\* called with the request of its Caller, with the result true
AppliedRegs ==
    {i \in 1..Len(callbacks_get(last.hook_point)) :
        \E k \in 1..Len(PredicateEvents) :
           /\ PredicateEvents[k].func.im_self
                 = ClassOf(callbacks_get(last.hook_point)[i][1])
           /\ PredicateEvents[k].args = <<DispatchRequest>>
           /\ PredicateEvents[k].result = Return(TRUE)}

C4_CalledIffApplies ==
    Dispatched =>
       LET regs == callbacks_get(last.hook_point)
       IN /\ CalledRegs = AppliedRegs
          /\ \A k \in 1..Len(PredicateEvents) :
                /\ PredicateEvents[k].args = <<DispatchRequest>>
                /\ PredicateEvents[k].result
                      = Return(AppliesTo(PredicateEvents[k].func.im_self,
                                         DispatchRequest))
          /\ ~last.result.raised =>
                CalledRegs = {i \in 1..Len(regs) :
                                 AppliesTo(ClassOf(regs[i][1]),
                                           DispatchRequest)}
          /\ \A k \in 1..Len(CallbackEvents) :
                \E i \in 1..Len(regs) : regs[i][1] = CallbackEvents[k].func
          /\ ({"Test4a", "Test4b"} \subseteq Range(_subclasses)
              /\ last.hook_point = enter_handler) =>
                Cardinality({i \in CalledRegs :
                    ClassOf(regs[i][1]) \in {"Test4a", "Test4b"}}) = 1

C4_Witness ==
    /\ last.op = "call"
    /\ last.hook_point = filter_result
    /\ {"Test2", "Test4a"} \subseteq Range(_subclasses)
    /\ request_endpoint(DispatchRequest) # "info"
    /\ {ClassOf(CallbackEvents[k].func) : k \in 1..Len(CallbackEvents)}
          \cap {"Test2", "Test4a"} = {"Test2"}

-----------------------------------------------------------------------------
(* C5: get_instance(r) returns a Caller constructed for r exactly while r
   has a Caller that was constructed and on which cleanup() has not been
   called, and raises KeyError otherwise.  (Violated: cleanup() deletes the
   entry of the request, whichever Caller it holds.) *)
LiveCallers(request_obj) ==
    {c \in 1..Len(callers) :
        callers[c]._request = request_obj /\ c \notin cleaned_up}

C5_GetInstanceWhileLive ==
    last.op = "get_instance" =>
       LET live == LiveCallers(_get_request_obj(last.request))
       IN /\ (live # {}) <=> ~last.result.raised
          /\ ~last.result.raised => last.result.value \in live
          /\ last.result.raised => last.result.value = KeyError

-----------------------------------------------------------------------------
(* C6: a dispatch on a hook point without registered callbacks calls nothing
   and raises nothing, whether or not the Caller has been cleaned up: call
   returns None, call_collect the empty list, call_chain its initial
   value. *)
C6_UnregisteredHookIsNoOp ==
    (Dispatched /\ last.hook_point \notin DOMAIN _callbacks) =>
       /\ last.trace = <<>>
       /\ ~last.result.raised
       /\ last.op = "call" => last.result.value = None
       /\ last.op = "call_collect" => last.result.value = <<>>
       /\ last.op = "call_chain" => last.result.value = last.arg1

C6_Witness ==
    /\ last.op = "call_chain"
    /\ last.hook_point = nonexistent_hook
    /\ last.self \in cleaned_up
    /\ DOMAIN _callbacks # {}
    /\ last.result = Return(PyInt(5))

-----------------------------------------------------------------------------
(* C7: when a callback raises, the dispatch ends with that exception and
   calls nothing more: a call that raised is the last call of the dispatch
   and its exception is the outcome of the dispatch, no value is returned,
   and no callback registered after the raising one is called (of three
   callbacks whose second raises, the first has run and the third has
   not). *)
C7_CallbackExceptionPropagates ==
    Dispatched =>
       LET regs == callbacks_get(last.hook_point)
           n == Len(last.trace)
       IN /\ \A k \in 1..n :
                last.trace[k].result.raised =>
                   /\ k = n
                   /\ last.result = last.trace[k].result
          /\ last.result.raised =>
                /\ n > 0
                /\ last.trace[n].result.raised
                /\ last.trace[n].ev = "callback" =>
                      \A i, j \in 1..Len(regs) :
                         (regs[i][1] = last.trace[n].func /\ i < j)
                            => j \notin CalledRegs

C7_Witness ==
    /\ last.op = "call_collect"
    /\ last.hook_point = hook_w
    /\ Len(callbacks_get(hook_w)) = 3
    /\ ClassOf(callbacks_get(hook_w)[2][1]) = "Test3"
    /\ AppliesTo(ClassOf(callbacks_get(hook_w)[3][1]), DispatchRequest)
    /\ last.result = Raise(Exception("PluginError"))
    /\ CalledRegs = {1, 2}

-----------------------------------------------------------------------------
(* C8: every plugin class has one instance: it is made when the class is
   defined, by the only run of its constructor; every later call of the
   class returns it; and every callback the class registered is bound to
   it.  A class that is not defined has no instance. *)
C8_OneSingletonPerClass ==
    /\ \A cls \in PluginClasses :
          IF cls \in Range(_subclasses)
          THEN /\ cls \in DOMAIN Singleton_instances
               /\ ctor_runs[cls] = 1
               /\ Singleton_instances[cls] = [cls |-> cls, serial |-> 1]
          ELSE /\ cls \notin DOMAIN Singleton_instances
               /\ ctor_runs[cls] = 0
    /\ last.op = "instantiate" =>
          last.result = Return(Singleton_instances[last.cls])
    /\ \A h \in DOMAIN _callbacks :
          \A i \in 1..Len(_callbacks[h]) :
             /\ ClassOf(_callbacks[h][i][1]) \in DOMAIN Singleton_instances
             /\ _callbacks[h][i][1].im_self
                   = Singleton_instances[ClassOf(_callbacks[h][i][1])]

C8_Witness ==
    /\ last.op = "instantiate"
    /\ ctor_runs[last.cls] = 1
    /\ \E h \in DOMAIN _callbacks :
          \E i \in 1..Len(_callbacks[h]) :
             _callbacks[h][i][1].im_self = last.result.value

-----------------------------------------------------------------------------
(* C9: a defined plugin class has registered the attribute name of its
   singleton as a callback of the hook point name if and only if name starts
   with a lowercase letter, the attribute is callable and name is not
   declared in the body of KorpCallbackPlugin: applies_to, overridden or
   not, and the names starting with an underscore or an uppercase letter are
   no hook points. *)
\* cls has registered its attribute name for the hook point name
Registered(cls, name) ==
    /\ name \in DOMAIN _callbacks
    /\ \E i \in 1..Len(_callbacks[name]) :
          /\ ClassOf(_callbacks[name][i][1]) = cls
          /\ _callbacks[name][i][1].qualname[2] = name

\* the callbacks the bodies of the plugin classes define
HookPointsOf(cls) ==
    CASE cls = "Test2" -> {filter_result, hook_x, hook_y, hook_w}
      [] cls = "Test3" -> {enter_handler, filter_result, hook_x, hook_y,
                           hook_w}
      [] cls = "Test4a" -> {enter_handler, filter_result, hook_x, hook_y,
                            hook_w}
      [] cls = "Test4b" -> {enter_handler}

C9_RegisteredIffQualifies ==
    /\ \A cls \in Range(_subclasses) :
          /\ \A name \in dir(cls) :
                Registered(cls, name) <=>
                   /\ Head(name) \in Lower
                   /\ ClassAttrs(owner(cls, name))[name].callable
                   /\ name \notin DOMAIN ClassAttrs(KorpCallbackPlugin)
          /\ {name \in DOMAIN _callbacks : Registered(cls, name)}
                = HookPointsOf(cls)
    /\ \A name \in DOMAIN _callbacks :
          /\ name # applies_to_name
          /\ Head(name) # "_"
          /\ Head(name) \in Lower
          /\ \A i \in 1..Len(_callbacks[name]) :
                /\ ClassOf(_callbacks[name][i][1]) \in Range(_subclasses)
                /\ _callbacks[name][i][1].qualname[2] = name
                /\ _callbacks[name][i][1].callable

C9_Witness ==
    /\ {"Test3", "Test4a"} \subseteq Range(_subclasses)
    /\ applies_to_name \in DOMAIN ClassAttrs("Test4a")
    /\ {under_helper, Upper_Helper, lower_version} \subseteq dir("Test3")
    /\ Registered("Test3", hook_w)
    /\ ~Registered("Test3", Upper_Helper)

-----------------------------------------------------------------------------
(* C10: every callback a dispatch calls gets the request object of the
   Caller as one more positional argument, after the positional arguments
   of the dispatch and before the keyword arguments: call and call_collect
   pass args, request, kwargs in this order, call_chain passes the current
   value, args, request, kwargs. *)
C10_RequestIsLastPositional ==
    Dispatched =>
       \A k \in 1..Len(CallbackEvents) :
          LET e == CallbackEvents[k]
              given == IF last.op = "call_chain"
                       THEN Tail(e.args) ELSE e.args
          IN /\ Len(given) = Len(last.args) + 1
             /\ SubSeq(given, 1, Len(last.args)) = last.args
             /\ given[Len(given)] = DispatchRequest
             /\ DispatchRequest \in Requests
             /\ e.kwargs = last.kwargs
             /\ last.op = "call_chain" =>
                   Head(e.args) = RunningValue(CallbackEvents, k - 1,
                                               last.arg1)

C10_Witness ==
    /\ last.op = "call_chain"
    /\ last.args = <<PyInt(3)>>
    /\ last.kwargs = [starttime |-> PyInt(0)]
    /\ Len(CallbackEvents) = 3
    /\ CallbackEvents[3].args
          = <<PyInt(7), PyInt(3), DispatchRequest>>

-----------------------------------------------------------------------------
(* What the properties about request handles read off the last operation *)

ForRequest == last.op \in {"call_for_request", "call_collect_for_request",
                           "call_chain_for_request"}

\* the request object a handle stands for
Concrete(handle) ==
    CASE handle = None -> flask_request
      [] handle = flask_request_proxy -> flask_request
      [] handle[1] = "LocalProxy" -> Request(handle[2])
      [] OTHER -> handle

-----------------------------------------------------------------------------
(* C11: call_for_request, call_collect_for_request and
   call_chain_for_request with request r do what call, call_collect and
   call_chain of get_instance(r) do: the same calls in the same order and
   the same result.  When the request is left out, the Caller is that of
   the request the global proxy stands for.  When get_instance(r) raises
   KeyError, they raise it and call nothing. *)
C11_ForRequestDelegates ==
    ForRequest =>
       LET inst == get_instance_result(last.request)
       IN /\ last.request = None =>
                inst = get_instance_result(flask_request)
          /\ inst.raised =>
                /\ last.result = Raise(KeyError)
                /\ last.trace = <<>>
          /\ ~inst.raised =>
                LET same ==
                      CASE last.op = "call_for_request" ->
                              call_method(inst.value, last.hook_point,
                                          last.args, last.kwargs)
                        [] last.op = "call_collect_for_request" ->
                              call_collect_method(inst.value,
                                    last.hook_point, last.args, last.kwargs)
                        [] last.op = "call_chain_for_request" ->
                              call_chain_method(inst.value, last.hook_point,
                                    last.arg1, last.args, last.kwargs)
                IN /\ last.result = same.result
                   /\ last.trace = same.trace

C11_Witness ==
    /\ last.op = "call_chain_for_request"
    /\ last.request = None
    /\ flask_request = Request(1)
    /\ Cardinality(DOMAIN Caller_instances) = 2
    /\ ReturnValues(CallbackEvents) = <<PyInt(7), PyInt(10)>>
    /\ last.result = Return(PyInt(10))

-----------------------------------------------------------------------------
(* C12: a request is given as the object, as a proxy or not at all, and
   construction and get_instance take the object the handle stands for (the
   handle itself when it is an object): every Caller holds a request object,
   the table of instances has it under the id of that object, the Caller
   constructed with one handle is what get_instance returns for every
   handle of the same object, and the callbacks get the object. *)
C12_HandlesResolveToObject ==
    /\ \A c \in 1..Len(callers) : callers[c]._request \in Requests
    /\ \A key \in DOMAIN Caller_instances :
          key = id(callers[Caller_instances[key]]._request)
    /\ \A h1, h2 \in RequestHandles :
          Concrete(h1) = Concrete(h2) =>
             get_instance_result(h1) = get_instance_result(h2)
    /\ last.op = "__init__" =>
          /\ callers[last.result.value]._request = Concrete(last.request)
          /\ \A h \in RequestHandles :
                Concrete(h) = Concrete(last.request) =>
                   get_instance_result(h) = Return(last.result.value)
    /\ last.op = "get_instance" =>
          last.result =
             IF id(Concrete(last.request)) \in DOMAIN Caller_instances
             THEN Return(Caller_instances[id(Concrete(last.request))])
             ELSE Raise(KeyError)
    /\ ForRequest =>
          \A k \in 1..Len(CallbackEvents) :
             CallbackEvents[k].args[Len(CallbackEvents[k].args)]
                = Concrete(last.request)

C12_Witness ==
    /\ last.op = "__init__"
    /\ last.request = LocalProxy(Request(2))
    /\ flask_request = Request(1)
    /\ get_instance_result(Request(2)) = Return(last.result.value)
    /\ get_instance_result(None) = Raise(KeyError)

-----------------------------------------------------------------------------
(* C13: constructing a Caller for a request that has a live Caller raises
   nothing and replaces the entry of the request: afterwards get_instance
   of the request returns the new Caller, none of the earlier ones, and
   the table of instances has exactly one entry for the request. *)
C13_SecondConstructionOverwrites ==
    last.op = "__init__" =>
       LET new == last.result.value
           obj == callers[new]._request
           earlier == {c \in LiveCallers(obj) : c # new}
       IN /\ ~last.result.raised
          /\ get_instance_result(last.request) = Return(new)
          /\ new \notin earlier
          /\ Cardinality({key \in DOMAIN Caller_instances :
                 callers[Caller_instances[key]]._request = obj}) = 1

C13_Witness ==
    /\ last.op = "__init__"
    /\ \E c \in LiveCallers(callers[last.result.value]._request) :
          c < last.result.value
    /\ get_instance_result(last.request) = Return(last.result.value)

-----------------------------------------------------------------------------
(* C14, as claimed: a construction for a request whose entry holds a live
   Caller returns that Caller and leaves the entry as it is.  (Violated:
   every construction makes a new Caller and stores it.) *)
\* the step constructs a Caller for a request whose entry holds a live Caller
ConstructsAgain ==
    /\ last'.op = "__init__"
    /\ id(Concrete(last'.request)) \in DOMAIN Caller_instances
    /\ Caller_instances[id(Concrete(last'.request))] \notin cleaned_up

C14_ConstructionIdempotent ==
    [][ConstructsAgain =>
          LET key == id(Concrete(last'.request))
          IN /\ last'.result = Return(Caller_instances[key])
             /\ Caller_instances'[key] = Caller_instances[key]]_vars

(* C14, amended: a construction for a request whose entry holds a live
   Caller makes a new Caller, one that did not exist before, and puts it in
   the place of the registered one: get_instance of the request returned
   the registered Caller before the construction and returns the new one
   after it. *)
C14_ConstructionReplaces ==
    [][ConstructsAgain =>
          LET key == id(Concrete(last'.request))
              new == last'.result.value
          IN /\ ~last'.result.raised
             /\ new \notin 1..Len(callers)
             /\ new \in 1..Len(callers')
             /\ get_instance_result(last'.request)
                   = Return(Caller_instances[key])
             /\ Caller_instances'[key] = new
             /\ Caller_instances'[key] # Caller_instances[key]]_vars

C14_Witness ==
    /\ last.op = "__init__"
    /\ last.result = Return(2)
    /\ callers[1]._request = callers[2]._request
    /\ cleaned_up = {}
    /\ Caller_instances[id(callers[2]._request)] = 2

-----------------------------------------------------------------------------
(* C15: in every state, every entry of the table of instances has as its
   key the id of the request its Caller holds, and that request exists; no
   request has two entries; two different requests that exist have
   different ids and are never given the same Caller; and no other request
   that exists has the id that is the key of an entry: the Caller in the
   table holds its request, so its address is not given to another
   object. *)
C15_DirectoryKeyedByHeldRequest ==
    /\ \A key \in DOMAIN Caller_instances :
          LET held == callers[Caller_instances[key]]._request
          IN /\ id(held) = key
             /\ held \in alive
             /\ \A r \in alive : id(r) = key => r = held
    /\ \A r \in alive :
          Cardinality({key \in DOMAIN Caller_instances :
             callers[Caller_instances[key]]._request = r}) <= 1
    /\ \A r1, r2 \in alive :
          r1 # r2 =>
             /\ id(r1) # id(r2)
             /\ (~get_instance_result(r1).raised
                 /\ ~get_instance_result(r2).raised)
                   => get_instance_result(r1) # get_instance_result(r2)

C15_Witness ==
    \E r \in alive :
       /\ id(r) \in DOMAIN Caller_instances
       /\ callers[Caller_instances[id(r)]]._request = r
       /\ \E c \in 1..Len(callers) :
             /\ callers[c]._request # r
             /\ id(callers[c]._request) = id(r)
             /\ c \in cleaned_up \cap dropped

-----------------------------------------------------------------------------
(* C18: in every step, of a class definition, a construction, a lookup, a
   dispatch or a cleanup, the list of every hook point stays as it is or
   gets new registrations at its end: no hook point and no registration is
   removed, replaced or moved.  Only a class definition changes the
   registry, so that after the last one it stays as it is. *)
C18_RegistryAppendOnly ==
    [][/\ \A h \in DOMAIN _callbacks :
             /\ h \in DOMAIN _callbacks'
             /\ Len(_callbacks'[h]) >= Len(_callbacks[h])
             /\ SubSeq(_callbacks'[h], 1, Len(_callbacks[h])) = _callbacks[h]
       /\ _callbacks' # _callbacks =>
             /\ last'.op = "class"
             /\ _subclasses' = Append(_subclasses, last'.cls)]_vars

C18_Witness ==
    /\ last.op = "class"
    /\ cleaned_up # {}
    /\ Len(callers) = 2
    /\ \E h \in DOMAIN _callbacks : Len(_callbacks[h]) = 3
    /\ \E h \in DOMAIN _callbacks : Len(_callbacks[h]) = 2

-----------------------------------------------------------------------------
(* Predicates on request state that changes: the endpoint of a request is
   set while the request is handled, and the plugin classes Test4a, Test4b
   and Test5 look at it in applies_to. *)

StateClasses == {"Test4a", "Test4b", "Test5"}
StateHookPoints == {enter_handler}

\* request.endpoint = e, done by the host framework
SetEndpoint(r, e) ==
    /\ Idle
    /\ endpoint[r] # e
    /\ endpoint' = [endpoint EXCEPT ![r] = e]
    /\ last' = [op |-> "set_endpoint", request |-> r]
    /\ UNCHANGED <<_subclasses, _callbacks, Singleton_instances, ctor_runs,
                   callers, Caller_instances, cleaned_up,
                   flask_request, alive, dropped, prev, threads, host>>

\* the code that made the last call goes on; a dispatch is remembered as
\* the dispatch before
Remember ==
    /\ prev' = IF Dispatched
               THEN [op |-> last.op, self |-> last.self,
                     hook_point |-> last.hook_point,
                     called |-> CalledRegs,
                     endpoint |-> endpoint[DispatchRequest]]
               ELSE prev
    /\ UNCHANGED <<flask_request, endpoint, alive, dropped, threads, host>>

StateNext ==
    \/ Resume /\ Remember
    \/ \E r \in Requests, e \in Endpoints : SetEndpoint(r, e)
    \/ \E cls \in StateClasses : DefineClass(cls) /\ EnvFrame
    \/ \E request \in Requests : Caller_init(request) /\ EnvFrame
    \/ \E self \in 1..MaxCallers, hook_point \in StateHookPoints :
            call(self, hook_point, <<>>, <<>>) /\ EnvFrame
    \/ \E self \in 1..MaxCallers, hook_point \in StateHookPoints :
            call_collect(self, hook_point, <<>>, <<>>) /\ EnvFrame
    \/ \E self \in 1..MaxCallers, hook_point \in StateHookPoints,
          arg1 \in ChainValues :
            call_chain(self, hook_point, arg1, <<>>, <<>>) /\ EnvFrame

StateSpec == Init /\ [][StateNext]_vars

\* what applies_to of a class of StateClasses says of a request with the
\* endpoint e that is not None
Holds(cls, e) ==
    CASE cls \in {"Test4a", "Test5"} -> e = "info"
      [] cls = "Test4b" -> e # "info"

-----------------------------------------------------------------------------
(* C16: every dispatch evaluates applies_to of every registration anew, on
   the request as it is at the time of the dispatch: a dispatch that
   returns has called exactly the callbacks whose predicate holds of the
   present endpoint of the request, also when the dispatch before was one
   of the same hook point on the same Caller and the endpoint has changed
   since. *)
C16_PredicateEvaluatedAnew ==
    (Dispatched /\ ~last.result.raised) =>
       LET regs == callbacks_get(last.hook_point)
           now == endpoint[DispatchRequest]
           fresh ==
              /\ Len(PredicateEvents) = Len(regs)
              /\ \A i \in 1..Len(regs) :
                    /\ PredicateEvents[i].func = regs[i][2]
                    /\ PredicateEvents[i].result
                          = Return(Holds(ClassOf(regs[i][1]), now))
              /\ CalledRegs = {i \in 1..Len(regs) :
                                  Holds(ClassOf(regs[i][1]), now)}
       IN /\ fresh
          /\ (/\ prev.op = last.op
              /\ prev.self = last.self
              /\ prev.hook_point = last.hook_point
              /\ prev.endpoint # now) => fresh

C16_Witness ==
    /\ Dispatched
    /\ ~last.result.raised
    /\ prev.op = last.op
    /\ prev.self = last.self
    /\ prev.hook_point = last.hook_point
    /\ prev.endpoint # endpoint[DispatchRequest]
    /\ Len(callbacks_get(last.hook_point)) = 3
    /\ prev.called # CalledRegs
    /\ prev.called # {}
    /\ CalledRegs # {}

-----------------------------------------------------------------------------
(* C17: when applies_to raises in a dispatch, the dispatch ends with that
   exception and returns nothing: the call of applies_to that raised is the
   last call of the dispatch, and neither the callback registered with that
   predicate nor any callback registered after it is called.  applies_to of
   Test5 raises AttributeError for a request whose endpoint is None. *)
C17_PredicateExceptionPropagates ==
    Dispatched =>
       LET regs == callbacks_get(last.hook_point)
           n == Len(last.trace)
           raising == {i \in 1..Len(regs) :
                          /\ ClassOf(regs[i][1]) = "Test5"
                          /\ endpoint[DispatchRequest] = "None"}
       IN /\ \A k \in 1..n :
                (last.trace[k].ev = "applies_to"
                 /\ last.trace[k].result.raised) =>
                   /\ k = n
                   /\ last.result = last.trace[k].result
                   /\ \A i, j \in 1..Len(regs) :
                         (regs[i][2] = last.trace[k].func /\ i <= j)
                            => j \notin CalledRegs
          /\ raising # {} =>
                /\ last.result = Raise(Exception("AttributeError"))
                /\ last.trace[n].ev = "applies_to"
                /\ \A i \in raising, j \in CalledRegs : j < i
          /\ raising = {} => ~last.result.raised

C17_Witness ==
    /\ last.op = "call_collect"
    /\ last.hook_point = enter_handler
    /\ _subclasses = <<"Test4b", "Test5", "Test4a">>
    /\ endpoint[DispatchRequest] = "None"
    /\ last.result = Raise(Exception("AttributeError"))
    /\ CalledRegs = {1}
    /\ Len(PredicateEvents) = 2

-----------------------------------------------------------------------------
(* Requests handled at the same time.  Every thread handles one request:
   it constructs the Caller of the request, looks it up and dispatches
   one hook point, and cleans up.  The threads share the table of
   instances and the registry; a thread is interleaved with the others
   between the statements of __init__, between the lookup and the
   dispatch, and between the rounds of the for loop of the dispatch.  The
   plugin classes are defined before the first thread starts. *)

Threads == 1..MaxAddresses
ThreadClasses == {"Test2", "Test4a"}

\* the request thread t handles
ThreadRequest(t) == Request(t)

\* Caller_request with one request kept for all Callers
Caller_request_shared(self) == callers[Len(callers)]._request

\* self._request
Caller_request(self) == callers[self]._request

\* one round of the for loop of call, call_collect or call_chain: acc is
\* nothing, result or arg1
iterate(kind, reg, request, acc, args, kwargs) ==
    LET callback == reg[1]
        applies_to == reg[2]
        applies == PyCall(applies_to, <<request>>, <<>>)
        ev1 == Event("applies_to", applies_to, <<request>>, <<>>, applies)
        posargs == IF kind = "call_chain"
                   THEN chain_args(acc, args, request)
                   ELSE callback_args(args, request)
        retval == PyCall(callback, posargs, kwargs)
        ev2 == Event("callback", callback, posargs, kwargs, retval)
    IN IF propagates(applies)
       THEN [raised |-> TRUE, outcome |-> applies, acc |-> acc,
             events |-> <<ev1>>]
       ELSE IF ~truth(applies)
       THEN [raised |-> FALSE, outcome |-> applies, acc |-> acc,
             events |-> <<ev1>>]
       ELSE IF propagates(retval)
       THEN [raised |-> TRUE, outcome |-> retval, acc |-> acc,
             events |-> <<ev1, ev2>>]
       ELSE [raised |-> FALSE, outcome |-> retval,
             acc |-> CASE kind = "call" -> acc
                       [] kind = "call_collect" ->
                             collect_retval(acc, retval.value)
                       [] kind = "call_chain" ->
                             chain_retval(acc, retval.value),
             events |-> <<ev1, ev2>>]

\* what the threads leave unchanged
ThreadFrame ==
    UNCHANGED <<_subclasses, _callbacks, Singleton_instances, ctor_runs,
                last, flask_request, endpoint, alive, dropped, prev, host>>

\* __init__, first statement: self._request = self._get_request_obj(request)
T_create(t) ==
    /\ Idle
    /\ threads[t].pc = "start"
    /\ callers' = Append(callers,
                         [_request |-> _get_request_obj(ThreadRequest(t))])
    /\ threads' = [threads EXCEPT ![t].pc = "created",
                                  ![t].self = Len(callers) + 1]
    /\ UNCHANGED <<Caller_instances, cleaned_up>>
    /\ ThreadFrame

\* __init__, second statement: self._instances[id(self._request)] = self
T_register(t) ==
    /\ threads[t].pc = "created"
    /\ Caller_instances' =
          dict_setitem(Caller_instances,
                       id(callers[threads[t].self]._request),
                       threads[t].self)
    /\ threads' = [threads EXCEPT ![t].pc = "active"]
    /\ UNCHANGED <<callers, cleaned_up>>
    /\ ThreadFrame

\* get_instance(request), and the dispatch method is entered: result = []
\* in call_collect, arg1 in call_chain
T_lookup(t, kind, arg1) ==
    /\ threads[t].pc = "active"
    /\ LET found == get_instance_result(ThreadRequest(t))
       IN threads' = [threads EXCEPT
             ![t].pc = IF found.raised THEN "failed" ELSE "loop",
             ![t].found = found,
             ![t].kind = kind,
             ![t].arg1 = arg1,
             ![t].i = 1,
             ![t].acc = CASE kind = "call" -> None
                          [] kind = "call_collect" -> <<>>
                          [] kind = "call_chain" -> arg1]
    /\ UNCHANGED <<callers, Caller_instances, cleaned_up>>
    /\ ThreadFrame

\* one round of the for loop, or its end and the return statement
T_iterate(t) ==
    /\ threads[t].pc = "loop"
    /\ LET me == threads[t]
           regs == callbacks_get(hook_x)
       IN IF me.i > Len(regs)
          THEN threads' = [threads EXCEPT
                  ![t].pc = "dispatched",
                  ![t].result = IF me.kind = "call" THEN Return(None)
                                ELSE Return(me.acc)]
          ELSE LET round == iterate(me.kind, regs[me.i],
                                    Caller_request(me.found.value),
                                    me.acc, <<>>, <<>>)
               IN threads' = [threads EXCEPT
                     ![t].pc = IF round.raised THEN "dispatched" ELSE "loop",
                     ![t].result = IF round.raised THEN round.outcome
                                   ELSE me.result,
                     ![t].i = me.i + 1,
                     ![t].acc = round.acc,
                     ![t].trace = me.trace \o round.events]
    /\ UNCHANGED <<callers, Caller_instances, cleaned_up>>
    /\ ThreadFrame

\* self.cleanup(): del self._instances[id(self._request)]
T_cleanup(t) ==
    /\ threads[t].pc = "dispatched"
    /\ LET self == threads[t].self
           key == id(callers[self]._request)
       IN IF key \in DOMAIN Caller_instances
          THEN /\ Caller_instances' =
                      [k \in DOMAIN Caller_instances \ {key} |->
                          Caller_instances[k]]
               /\ cleaned_up' = cleaned_up \cup {self}
               /\ threads' = [threads EXCEPT ![t].pc = "cleaned"]
          ELSE /\ UNCHANGED <<Caller_instances, cleaned_up>>
               /\ threads' = [threads EXCEPT ![t].pc = "failed"]
    /\ UNCHANGED callers
    /\ ThreadFrame

DispatchKinds == {"call", "call_collect", "call_chain"}

\* the next statement of thread t
ThreadStep(t) ==
    \/ T_create(t)
    \/ T_register(t)
    \/ \E kind \in DispatchKinds, arg1 \in ChainValues :
          T_lookup(t, kind, arg1)
    \/ T_iterate(t)
    \/ T_cleanup(t)

\* no thread has started: the plugins are being loaded
Startup == \A t \in Threads : threads[t].pc = "start"

ThreadInit ==
    /\ _subclasses = <<>>
    /\ _callbacks = <<>>
    /\ Singleton_instances = <<>>
    /\ ctor_runs = [cls \in AllClasses |-> 0]
    /\ callers = <<>>
    /\ Caller_instances = <<>>
    /\ cleaned_up = {}
    /\ last = [op |-> "idle"]
    /\ flask_request = Request(1)
    /\ endpoint = [r \in AllRequests |-> request_endpoint_received(r)]
    /\ alive = {ThreadRequest(t) : t \in Threads}
    /\ dropped = {}
    /\ prev = [op |-> "idle"]
    /\ threads = [t \in Threads |->
                    [pc |-> "start", self |-> 0, found |-> Return(0),
                     kind |-> "call", arg1 |-> <<>>, i |-> 0, acc |-> <<>>,
                     result |-> Return(<<>>), trace |-> <<>>]]
    /\ functionplugin = functionplugin_imported
    /\ HostInit

ThreadNext ==
    \/ Resume /\ EnvFrame
    \/ \E cls \in ThreadClasses : Startup /\ DefineClass(cls) /\ EnvFrame
    \/ \E t \in Threads : ThreadStep(t)

\* every thread that can take a step takes one in the end
ThreadSpec ==
    /\ ThreadInit
    /\ [][ThreadNext]_vars
    /\ \A t \in Threads : WF_vars(ThreadStep(t))

-----------------------------------------------------------------------------
(* What the properties about threads read off the threads *)

\* the threads whose Caller is in the table: constructed, not cleaned up
Registered_threads ==
    {t \in Threads : threads[t].pc \in {"active", "loop", "dispatched"}}

\* the callback calls thread t has made, in order
ThreadCallbackEvents(t) ==
    SelectSeq(threads[t].trace, LAMBDA e : e.ev = "callback")

\* the callbacks registered for hook_x whose predicate holds of request, in
\* the order of their registration
RECURSIVE ApplicableCallbacks(_, _)
ApplicableCallbacks(regs, request) ==
    IF regs = <<>> THEN <<>>
    ELSE (IF AppliesTo(ClassOf(Head(regs)[1]), request)
          THEN <<Head(regs)[1]>> ELSE <<>>)
         \o ApplicableCallbacks(Tail(regs), request)

-----------------------------------------------------------------------------
(* C19: however the steps of the threads are interleaved, the table of
   instances holds exactly the requests of the threads that have
   constructed their Caller and not cleaned up, each with the Caller of its
   own thread: no step of one thread adds, removes or replaces the entry of
   another request, the lookup of every thread returns the Caller the
   thread constructed, and no construction, lookup or cleanup fails. *)
C19_DirectoryPerRequest ==
    /\ DOMAIN Caller_instances
          = {id(ThreadRequest(t)) : t \in Registered_threads}
    /\ \A t \in Registered_threads :
          /\ Caller_instances[id(ThreadRequest(t))] = threads[t].self
          /\ callers[threads[t].self]._request = ThreadRequest(t)
          /\ get_instance_result(ThreadRequest(t))
                = Return(threads[t].self)
    /\ \A t, u \in Registered_threads :
          t # u => threads[t].self # threads[u].self
    /\ \A t \in Threads :
          /\ threads[t].pc # "failed"
          /\ threads[t].pc \in {"loop", "dispatched", "cleaned"} =>
                threads[t].found = Return(threads[t].self)
          /\ threads[t].pc = "cleaned" <=> threads[t].self \in cleaned_up

\* thread 1 has done all its steps while thread 2, which constructed its
\* Caller first, was in the for loop of its dispatch
C19_Witness ==
    /\ threads[1].pc = "cleaned"
    /\ threads[2].pc = "loop"
    /\ threads[2].i = 2
    /\ threads[2].self < threads[1].self
    /\ Len(callbacks_get(hook_x)) = 2
    /\ DOMAIN Caller_instances = {id(ThreadRequest(2))}

-----------------------------------------------------------------------------
(* C20: however the dispatches of the threads are interleaved, the
   dispatch of a thread calls the callbacks of the hook point whose
   predicate holds of the request of the thread, each once, in the order
   of their registration, each with that request as the last positional
   argument, and returns what the same dispatch returns when nothing is
   interleaved with it; and every dispatch that has started comes to its
   end. *)
DispatchOfThreadRight(t) ==
    LET me == threads[t]
        events == ThreadCallbackEvents(t)
        expected == ApplicableCallbacks(callbacks_get(hook_x),
                                        ThreadRequest(t))
        alone == CASE me.kind = "call" ->
                         call_method(me.self, hook_x, <<>>, <<>>)
                   [] me.kind = "call_collect" ->
                         call_collect_method(me.self, hook_x, <<>>, <<>>)
                   [] me.kind = "call_chain" ->
                         call_chain_method(me.self, hook_x, me.arg1,
                                           <<>>, <<>>)
    IN /\ \A k \in 1..Len(events) :
             /\ k <= Len(expected)
             /\ events[k].func = expected[k]
             /\ events[k].args[Len(events[k].args)] = ThreadRequest(t)
       /\ IF me.pc \in {"dispatched", "cleaned"}
          THEN /\ Len(events) = Len(expected)
               /\ me.result = alone.result
               /\ me.trace = alone.trace
          ELSE TRUE

C20_DispatchPerRequest ==
    /\ [](\A t \in Threads : DispatchOfThreadRight(t))
    /\ \A t \in Threads :
          (threads[t].pc = "loop")
             ~> (threads[t].pc \in {"dispatched", "cleaned"})

\* both threads are in the for loop of their dispatch and have called the
\* first callback: thread 1 with its request, thread 2 with its own
C20_Witness ==
    /\ threads[1].pc = "loop"
    /\ threads[1].kind = "call_chain"
    /\ threads[1].i = 2
    /\ threads[1].acc = PyInt(7)
    /\ Len(ThreadCallbackEvents(1)) = 1
    /\ threads[2].pc = "loop"
    /\ threads[2].i = 2
    /\ Len(ThreadCallbackEvents(2)) = 1
    /\ Len(callbacks_get(hook_x)) = 2

-----------------------------------------------------------------------------
(* Plugins that fail: a plugin class whose constructor raises, and callbacks
   that raise for some arguments.  The Callers are used through their
   instance methods and through the class methods that look them up, also
   after cleanup(). *)

\* the plugin classes, hook points and argument values of this part
FailClasses == {"Test2", "Test4a", "Test6", "Test7"}
FailHookPoints == {hook_x, filter_result}
FailValues == {PyInt(5), PyDict("kwic", PyInt(0))}

FailNext ==
    \/ Resume /\ EnvFrame
    \/ \E cls \in FailClasses : DefineClass(cls) /\ EnvFrame
    \/ \E request \in Requests : Caller_init(request) /\ EnvFrame
    \/ \E request \in Requests : get_instance(request) /\ EnvFrame
    \/ \E self \in 1..MaxCallers : cleanup(self) /\ EnvFrame
    \/ \E self \in 1..MaxCallers, hook_point \in FailHookPoints,
          v \in FailValues :
            call(self, hook_point, <<v>>, <<>>) /\ EnvFrame
    \/ \E self \in 1..MaxCallers, hook_point \in FailHookPoints,
          v \in FailValues :
            call_collect(self, hook_point, <<v>>, <<>>) /\ EnvFrame
    \/ \E self \in 1..MaxCallers, hook_point \in FailHookPoints,
          v \in FailValues :
            call_chain(self, hook_point, v, <<>>, <<>>) /\ EnvFrame
    \/ \E hook_point \in FailHookPoints, request \in Requests,
          v \in FailValues :
            call_for_request(hook_point, <<v>>, request, <<>>) /\ EnvFrame
    \/ \E hook_point \in FailHookPoints, request \in Requests,
          v \in FailValues :
            call_collect_for_request(hook_point, <<v>>, request, <<>>)
               /\ EnvFrame
    \/ \E hook_point \in FailHookPoints, request \in Requests,
          v \in FailValues :
            call_chain_for_request(hook_point, v, <<>>, request, <<>>)
               /\ EnvFrame

FailSpec == Init /\ [][FailNext]_vars

\* the __init__ of cls raises
ConstructorRaises(cls) ==
    ClassAttrs(owner(cls, dunder_init))[dunder_init].body = <<"raise">>

-----------------------------------------------------------------------------
(* C21: when the constructor of a newly defined plugin class raises, the
   exception leaves the class definition, and the registry is what it was
   before the class statement: no callback of the class is registered for
   any hook point, and the class has no instance. *)
C21_ConstructorErrorLeavesRegistry ==
    [][(last'.op = "class" /\ ConstructorRaises(last'.cls)) =>
          /\ last'.result = Raise(Exception("PluginError"))
          /\ _callbacks' = _callbacks
          /\ \A h \in DOMAIN _callbacks' :
                \A i \in 1..Len(_callbacks'[h]) :
                   ClassOf(_callbacks'[h][i][1]) # last'.cls
          /\ last'.cls \notin DOMAIN Singleton_instances']_vars

C21_Witness ==
    /\ last.op = "class"
    /\ last.cls = "Test7"
    /\ last.result.raised
    /\ hook_x \in DOMAIN _callbacks
    /\ Len(_callbacks[hook_x]) = 2
    /\ ctor_runs["Test7"] = 1

-----------------------------------------------------------------------------
(* The three dispatch methods on the same registry, hook point, arguments
   and request: what each of them does where the last dispatch was made *)

\* the calls of a trace: which function, called as predicate or as callback
Calls(trace) == [k \in 1..Len(trace) |-> <<trace[k].ev, trace[k].func>>]

IsPrefix(a, b) == Len(a) <= Len(b) /\ SubSeq(b, 1, Len(a)) = a

\* the positional arguments of the last dispatch, the chained one first
GivenArgs ==
    IF last.op = "call_chain" THEN <<last.arg1>> \o last.args ELSE last.args

ByCall == call_method(last.self, last.hook_point, GivenArgs, last.kwargs)

ByCollect ==
    call_collect_method(last.self, last.hook_point, GivenArgs, last.kwargs)

ByChain ==
    call_chain_method(last.self, last.hook_point, Head(GivenArgs),
                      Tail(GivenArgs), last.kwargs)

\* the exception of a dispatch is that of the last call it made
RaisedByLastCall(done) ==
    done.result.raised =>
       /\ done.trace # <<>>
       /\ done.trace[Len(done.trace)].result = done.result

(* C22 as stated: for the same registry, hook point, arguments and request
   state, call, call_collect and call_chain evaluate the same predicates
   and invoke the same sequence of callbacks in the same order. *)
C22_SameCallsInAllThree ==
    Dispatched =>
       /\ Calls(ByCall.trace) = Calls(ByCollect.trace)
       /\ Calls(ByCall.trace) = Calls(ByChain.trace)

(* C22, amended: call and call_collect make the same calls with the same
   arguments in the same order; call_chain makes the same calls in the same
   order up to the first callback that raises in one of the two dispatches:
   a callback that is given the chained value may raise where it does not
   raise for the original argument, or the other way round, and the
   dispatch that raises stops there.  When neither raises, the calls are
   the same.  The results differ in how the return values are combined. *)
C22_SameCallsUntilRaise ==
    Dispatched =>
       /\ last.op = "call" =>
             last.trace = ByCall.trace /\ last.result = ByCall.result
       /\ last.op = "call_collect" =>
             last.trace = ByCollect.trace /\ last.result = ByCollect.result
       /\ last.op = "call_chain" =>
             last.trace = ByChain.trace /\ last.result = ByChain.result
       /\ ByCall.trace = ByCollect.trace
       /\ ByCall.result.raised = ByCollect.result.raised
       /\ \/ IsPrefix(Calls(ByCall.trace), Calls(ByChain.trace))
          \/ IsPrefix(Calls(ByChain.trace), Calls(ByCall.trace))
       /\ Len(ByCall.trace) < Len(ByChain.trace) => ByCall.result.raised
       /\ Len(ByChain.trace) < Len(ByCall.trace) => ByChain.result.raised
       /\ (~ByCall.result.raised /\ ~ByChain.result.raised) =>
             Calls(ByCall.trace) = Calls(ByChain.trace)
       /\ RaisedByLastCall(ByCall)
       /\ RaisedByLastCall(ByChain)
       /\ \A k \in 1..Len(ByChain.trace) :
             (k <= Len(ByCall.trace) /\ ByChain.trace[k].ev = "applies_to")
                => ByChain.trace[k] = ByCall.trace[k]
       /\ ~ByCall.result.raised => ByCall.result = Return(None)
       /\ ~ByCollect.result.raised =>
             ByCollect.result.value
                = NonNullResults(SelectSeq(ByCollect.trace,
                                           LAMBDA e : e.ev = "callback"))

C22_Witness ==
    /\ last.op = "call"
    /\ last.hook_point = hook_x
    /\ ~last.result.raised
    /\ Len(CallbackEvents) = 3
    /\ ByChain.result.raised
    /\ Len(ByChain.trace) < Len(ByCall.trace)

-----------------------------------------------------------------------------
\* the Callers constructed for the request object
CallersOf(request_obj) ==
    {c \in 1..Len(callers) : callers[c]._request = request_obj}

\* every Caller constructed for the request object has been cleaned up
Retired(request_obj) ==
    /\ CallersOf(request_obj) # {}
    /\ CallersOf(request_obj) \subseteq cleaned_up

(* C27: cleanup() removes the entry of the Caller's request from the table
   and leaves the Caller as it is.  A dispatch method called on the Caller
   after cleanup() calls the callbacks that apply to its request, with its
   request as last positional argument, as before; get_instance and the
   for_request methods for a request all of whose Callers are cleaned up
   raise KeyError and call nothing. *)
C27_CleanupKeepsCallerUsable ==
    /\ (last.op = "cleanup" /\ ~last.result.raised) =>
          /\ last.self \in cleaned_up
          /\ callers[last.self]._request \in Requests
          /\ id(callers[last.self]._request) \notin DOMAIN Caller_instances
          /\ get_instance_result(callers[last.self]._request)
                = Raise(KeyError)
    /\ (Dispatched /\ last.self \in cleaned_up) =>
          LET regs == callbacks_get(last.hook_point)
          IN /\ DispatchRequest \in Requests
             /\ \A k \in 1..Len(CallbackEvents) :
                   CallbackEvents[k].args[Len(CallbackEvents[k].args)]
                      = DispatchRequest
             /\ CalledRegs = AppliedRegs
             /\ ~last.result.raised =>
                   CalledRegs = {i \in 1..Len(regs) :
                                    AppliesTo(ClassOf(regs[i][1]),
                                              DispatchRequest)}
    /\ (last.op = "get_instance" /\ Retired(last.request)) =>
          last.result = Raise(KeyError)
    /\ (ForRequest /\ Retired(last.request)) =>
          /\ last.result = Raise(KeyError)
          /\ last.trace = <<>>

C27_Witness ==
    /\ last.op = "call_chain"
    /\ last.self \in cleaned_up
    /\ Retired(DispatchRequest)
    /\ Len(CallbackEvents) = 2
    /\ ~last.result.raised
    /\ get_instance_result(DispatchRequest) = Raise(KeyError)

-----------------------------------------------------------------------------
(* The plugin contenthider with other callback plugins: its module has
   called get_plugin_config, and HIDDEN_STRUCT_NAMES is the default list or
   is configured as the empty list; then its class QueryContentHider is
   defined, and requests of several endpoints are dispatched. *)

HiderClasses == {"QueryContentHider", "Test2", "Test4a"}
HiderHookPoints == {filter_args, filter_result}
HiderEndpoints == {"info", "query", "relations_sentences"}
HiderValues == {PyDict("kwic", PyInt(0))}

\* the values HIDDEN_STRUCT_NAMES is configured with
HiddenStructNames == {<<>>, <<"text__removed">>}

HiderInit ==
    /\ CoreInit
    /\ \E names \in HiddenStructNames :
          plugin_configs =
             [plugin \in {"contenthider"} |->
                 [attr \in {"HIDDEN_STRUCT_NAMES"} |-> names]]
    /\ _plugin_configs_expanded = {"contenthider"}
    /\ expansions = <<>>
    /\ added_configs = <<>>
    /\ pluginlibconf = _conf_defaults
    /\ LoaderInit

HiderNext ==
    \/ Resume /\ EnvFrame
    \/ \E r \in Requests, e \in HiderEndpoints : SetEndpoint(r, e)
    \/ \E cls \in HiderClasses : DefineClass(cls) /\ EnvFrame
    \/ \E request \in Requests : Caller_init(request) /\ EnvFrame
    \/ \E self \in 1..MaxCallers, hook_point \in HiderHookPoints,
          v \in HiderValues :
            call(self, hook_point, <<v>>, <<>>) /\ EnvFrame
    \/ \E self \in 1..MaxCallers, hook_point \in HiderHookPoints,
          v \in HiderValues :
            call_collect(self, hook_point, <<v>>, <<>>) /\ EnvFrame
    \/ \E self \in 1..MaxCallers, hook_point \in HiderHookPoints,
          v \in HiderValues :
            call_chain(self, hook_point, v, <<>>, <<>>) /\ EnvFrame

HiderSpec == HiderInit /\ [][HiderNext]_vars

\* QueryContentHider is meant for the request of the last dispatch
HiderMeantFor ==
    /\ HIDDEN_STRUCT_NAMES # <<>>
    /\ endpoint[DispatchRequest] \in {"query", "relations_sentences"}

\* the positions of the registrations of QueryContentHider
HiderRegs ==
    {i \in 1..Len(callbacks_get(last.hook_point)) :
        ClassOf(callbacks_get(last.hook_point)[i][1]) = "QueryContentHider"}

(* C28: the callbacks filter_args and filter_result of QueryContentHider
   are called only for requests whose endpoint is "query" or
   "relations_sentences" and only when HIDDEN_STRUCT_NAMES is not empty;
   for every other request a dispatch of filter_args or filter_result
   skips them and completes normally, having called the callbacks of the
   other plugins that apply. *)
C28_HiderOnlyForQueries ==
    (Dispatched /\ last.hook_point \in {filter_args, filter_result}) =>
       LET regs == callbacks_get(last.hook_point)
       IN /\ (CalledRegs \cap HiderRegs # {}) => HiderMeantFor
          /\ ~HiderMeantFor =>
                /\ ~last.result.raised
                /\ CalledRegs
                      = {i \in 1..Len(regs) \ HiderRegs :
                            AppliesTo(ClassOf(regs[i][1]), DispatchRequest)}

-----------------------------------------------------------------------------
(* korppluginlib._configutil (src/korppluginlib/_configutil.py).  A
   configuration object, a dict or a namespace, is a function from attribute
   names to values; attribute names are tuples of characters, so that
   key.startswith(prefix) and key[len(prefix):] are computed. *)

MaxConfigs == 3      \* configuration objects given to _make_config

\* key.startswith(prefix)
startswith(key, prefix) ==
    Len(prefix) <= Len(key) /\ SubSeq(key, 1, Len(prefix)) = prefix

\* the empty dict, and the test "if conf_dict"
empty_dict == <<>>
nonempty(conf_dict) == DOMAIN conf_dict # {}

\* an item of configs: a configuration object is taken with the prefix "",
\* a pair (conf, prefix) as it is; _get_dict gives the dict of either kind
\* of object
ConfItem(conf, prefix) == [conf |-> conf, prefix |-> prefix]

\* dict((key[len(prefix):], val) for key, val in conf_dict.items()
\*      if key.startswith(prefix))
prefixed_keys(conf_dict, prefix) ==
    LET keys == {key \in DOMAIN conf_dict : startswith(key, prefix)}
        strip(key) == SubSeq(key, Len(prefix) + 1, Len(key))
    IN [attrname \in {strip(key) : key \in keys} |->
           conf_dict[prefix \o attrname]]

\* the loop over reversed(configs), from the i-th item down
RECURSIVE scan_configs(_, _, _, _)
scan_configs(configs, i, default_conf, other_confs) ==
    IF i = 0
    THEN [default_conf |-> default_conf, other_confs |-> other_confs]
    ELSE LET conf_dict == configs[i].conf
             prefix == configs[i].prefix
         IN IF nonempty(conf_dict)
            THEN IF ~nonempty(default_conf)
                 THEN scan_configs(configs, i - 1,
                                   IF prefix # <<>>
                                   THEN prefixed_keys(conf_dict, prefix)
                                   ELSE conf_dict,
                                   other_confs)
                 ELSE scan_configs(configs, i - 1, default_conf,
                                   <<configs[i]>> \o other_confs)
            ELSE scan_configs(configs, i - 1, default_conf, other_confs)

\* the loop over other_confs for attrname, from the j-th one on: the value
\* of the first that has prefix + attrname
RECURSIVE first_value(_, _, _, _)
first_value(other_confs, j, attrname, default) ==
    IF j > Len(other_confs) THEN default
    ELSE IF (other_confs[j].prefix \o attrname)
               \in DOMAIN other_confs[j].conf
    THEN other_confs[j].conf[other_confs[j].prefix \o attrname]
    ELSE first_value(other_confs, j + 1, attrname, default)

\* _make_config(*configs)
_make_config(configs) ==
    LET scanned == scan_configs(configs, Len(configs), empty_dict, <<>>)
    IN [attrname \in DOMAIN scanned.default_conf |->
           first_value(scanned.other_confs, 1, attrname,
                       scanned.default_conf[attrname])]

-----------------------------------------------------------------------------
(* _make_config applied to up to MaxConfigs configuration objects, each
   given as it is or with the prefix "P".  The values of a configuration
   object name the object, so that a result shows where each value is
   from. *)

attr_A == <<"A">>
attr_B == <<"B">>
attr_PA == <<"P", "A">>
attr_PB == <<"P", "B">>
prefix_P == <<"P">>

\* the configuration objects _make_config is tried with
ConfObjects ==
    {empty_dict,
     (attr_A :> "c1") @@ (attr_B :> "c1"),
     (attr_A :> "c2"),
     (attr_PA :> "c3") @@ (attr_PB :> "c3"),
     (attr_PA :> "c4") @@ (attr_B :> "c4")}

ConfItems == {ConfItem(conf, prefix) : conf \in ConfObjects,
                                       prefix \in {<<>>, prefix_P}}

\* the argument lists of n items
RECURSIVE ConfigLists(_)
ConfigLists(n) ==
    IF n = 0 THEN {<<>>}
    ELSE ConfigLists(n - 1)
         \cup {Append(configs, item) :
                  configs \in {c \in ConfigLists(n - 1) : Len(c) = n - 1},
                  item \in ConfItems}

\* what the functions of _configutil and _pluginloader leave unchanged
\* in the module _callbackplugin and in the requests
HostFrame ==
    UNCHANGED <<_subclasses, _callbacks, Singleton_instances, ctor_runs,
                callers, Caller_instances, cleaned_up,
                flask_request, endpoint, alive, dropped, prev, threads,
                functionplugin>>

\* a call _make_config(*configs)
make_config(configs) ==
    /\ Idle
    /\ last' = [op |-> "_make_config", configs |-> configs,
                result |-> Return(_make_config(configs))]
    /\ HostFrame
    /\ UNCHANGED host

MakeNext ==
    \/ Resume /\ EnvFrame
    \/ \E configs \in ConfigLists(MaxConfigs) : make_config(configs)

MakeSpec == Init /\ [][MakeNext]_vars

\* the attributes a configuration item has: under its prefix, if it is
\* given with one
AttrsOf(item) ==
    IF item.prefix # <<>> THEN DOMAIN prefixed_keys(item.conf, item.prefix)
    ELSE DOMAIN item.conf

Max(S) == CHOOSE n \in S : \A m \in S : m <= n
Min(S) == CHOOSE n \in S : \A m \in S : n <= m

(* C23: _make_config(c1, ..., cn) returns a namespace whose attributes are
   those of the last non-empty configuration object, without its prefix
   when it is given as a pair (conf, prefix); the value of each attribute
   is that of the first object in argument order that has the attribute
   under its prefix, which is the default value when no other object has
   it; attributes that only other objects have are not in the result. *)
C23_MakeConfigDefaults ==
    last.op = "_make_config" =>
       LET configs == last.configs
           result == last.result.value
           filled == {i \in 1..Len(configs) : nonempty(configs[i].conf)}
       IN /\ ~last.result.raised
          /\ filled = {} => DOMAIN result = {}
          /\ filled # {} =>
                /\ DOMAIN result = AttrsOf(configs[Max(filled)])
                /\ \A attrname \in DOMAIN result :
                      LET having ==
                            {i \in filled :
                                (configs[i].prefix \o attrname)
                                   \in DOMAIN configs[i].conf}
                          first == configs[Min(having)]
                      IN /\ having # {}
                         /\ result[attrname]
                               = first.conf[first.prefix \o attrname]

-----------------------------------------------------------------------------
(* add_plugin_config and get_plugin_config, called in any order for the
   plugins of a small installation: test1 is a sub-package of korpplugins
   with a submodule and a config module, test2 is a module of korpplugins,
   and test0 is a top-level module. *)

\* a module that calls get_plugin_config: the components of its __name__
\* and whether its __file__ is an __init__.py
Module(name, is_init) == [name |-> name, is_init |-> is_init]

CallingModules ==
    {Module(<<"korpplugins", "test1">>, TRUE),
     Module(<<"korpplugins", "test1", "sub">>, FALSE),
     Module(<<"korpplugins", "test2">>, FALSE),
     Module(<<"test0">>, FALSE)}

PluginNames == {"test1", "test2", "test0"}

\* str.upper on the plugin names
upper(plugin) ==
    CASE plugin = "test1" -> "TEST1"
      [] plugin = "test2" -> "TEST2"
      [] plugin = "test0" -> "TEST0"

\* the attributes of Korp's module config
korpconf ==
    "PLUGIN_CONFIG_TEST1" :> ((attr_A :> "korp") @@ (attr_B :> "korp"))

\* the config modules that can be imported
config_modules ==
    <<"korpplugins", "test1", "config">>
       :> ((attr_A :> "module") @@ (attr_B :> "module")
           @@ (attr_PB :> "module"))

\* getattr_default(obj, name, default) and dict.get(name, default)
getattr_default(obj, name, default) ==
    IF name \in DOMAIN obj THEN obj[name] ELSE default

\* importlib.import_module(config_name), or an empty namespace
import_config(config_name) ==
    IF config_name \in DOMAIN config_modules
    THEN config_modules[config_name]
    ELSE empty_dict

\* the plugin a module belongs to
plugin_of(module) ==
    IF Len(module.name) > 1 THEN module.name[2] ELSE module.name[1]

\* the config module of the plugin that the module belongs to
plugin_config_mod(module) ==
    IF Len(module.name) > 1
    THEN LET pkg == module.name[1]
             plugin == module.name[2]
             config_name ==
                IF Len(module.name) > 2 \/ module.is_init
                THEN <<pkg, plugin, "config">>
                ELSE <<pkg, "config">>
         IN import_config(config_name)
    ELSE empty_dict

\* the configurations given to add_plugin_config
AddedConfigs ==
    {(attr_A :> "added1"),
     (attr_A :> "added2") @@ (attr_PA :> "added2")}

\* the defaults given to get_plugin_config: none, or those of a module
DefaultConfigs ==
    {empty_dict,
     (attr_A :> "default1") @@ (attr_B :> "default1")
        @@ (attr_PB :> "default1") @@ (attr_PA :> "default1"),
     (attr_B :> "default2")}

\* the state of _configutil that the two functions work on
ConfigState ==
    [plugin_configs |-> plugin_configs,
     _plugin_configs_expanded |-> _plugin_configs_expanded,
     expansions |-> expansions,
     added_configs |-> added_configs]

\* plugin_configs[plugin_name] = config
add_plugin_config_in(conf, plugin_name, config) ==
    [conf EXCEPT
       !.plugin_configs = (plugin_name :> config) @@ conf.plugin_configs,
       !.added_configs = (plugin_name :> config) @@ conf.added_configs]

\* plugin_configs[plugin] = _make_config(...)
expand_plugin_config(configs, plugin, made) ==
    (plugin :> made) @@ configs

\* the body of get_plugin_config(defaults) called in module
get_plugin_config_in(conf, module, defaults) ==
    LET plugin == plugin_of(module)
        added == getattr_default(conf.plugin_configs, plugin, empty_dict)
        made == _make_config(
                   <<ConfItem(added, <<>>),
                     ConfItem(getattr_default(
                                 korpconf, "PLUGIN_CONFIG_" \o upper(plugin),
                                 empty_dict), <<>>),
                     ConfItem(plugin_config_mod(module), <<>>),
                     ConfItem(defaults, <<>>)>>)
        expanded ==
           IF plugin \notin conf._plugin_configs_expanded
           THEN [conf EXCEPT
                   !.plugin_configs =
                      expand_plugin_config(conf.plugin_configs, plugin, made),
                   !._plugin_configs_expanded = @ \cup {plugin}]
           ELSE conf
    IN [expanded EXCEPT
          !.expansions =
             IF plugin \in DOMAIN @ THEN @
             ELSE (plugin :> [defaults |-> defaults, module |-> module,
                              added |-> added,
                              result |-> expanded.plugin_configs[plugin]])
                  @@ @]

\* the state of _configutil becomes conf
ConfigBecomes(conf) ==
    /\ plugin_configs' = conf.plugin_configs
    /\ _plugin_configs_expanded' = conf._plugin_configs_expanded
    /\ expansions' = conf.expansions
    /\ added_configs' = conf.added_configs

\* add_plugin_config(plugin_name, config)
add_plugin_config(plugin_name, config) ==
    /\ Idle
    /\ ConfigBecomes(add_plugin_config_in(ConfigState, plugin_name, config))
    /\ last' = [op |-> "add_plugin_config", plugin |-> plugin_name,
                config |-> config, result |-> Return(None)]
    /\ UNCHANGED loader_state
    /\ HostFrame

\* get_plugin_config(defaults) called in module
get_plugin_config(module, defaults) ==
    LET plugin == plugin_of(module)
        conf == get_plugin_config_in(ConfigState, module, defaults)
    IN /\ Idle
       /\ ConfigBecomes(conf)
       /\ last' = [op |-> "get_plugin_config", module |-> module,
                   plugin |-> plugin, defaults |-> defaults,
                   added |-> getattr_default(plugin_configs, plugin,
                                             empty_dict),
                   again |-> plugin \in DOMAIN expansions,
                   result |-> Return(conf.plugin_configs[plugin])]
       /\ UNCHANGED loader_state
       /\ HostFrame

ConfigNext ==
    \/ Resume /\ EnvFrame
    \/ \E plugin \in PluginNames, config \in AddedConfigs :
          add_plugin_config(plugin, config)
    \/ \E module \in CallingModules, defaults \in DefaultConfigs :
          get_plugin_config(module, defaults)

ConfigSpec == Init /\ [][ConfigNext]_vars

\* the value of attrname in the first of the configurations that has it
RECURSIVE FirstOf(_, _, _)
FirstOf(confs, j, attrname) ==
    IF attrname \in DOMAIN confs[j] THEN confs[j][attrname]
    ELSE FirstOf(confs, j + 1, attrname)

\* the four places get_plugin_config takes values from, for the last call
SourcesOfLast ==
    <<last.added,
      getattr_default(korpconf, "PLUGIN_CONFIG_" \o upper(last.plugin), empty_dict),
      plugin_config_mod(last.module),
      last.defaults>>

(* C24: get_plugin_config gives every configuration variable of the
   calling plugin the value from the first of the configuration added with
   add_plugin_config, Korp's config.PLUGIN_CONFIG_<PLUGINNAME>, the config
   module of the plugin and the defaults in which there is one; it stores
   the result in plugin_configs[plugin]; a later call for the same plugin
   returns what the first call returned, whatever its defaults. *)
C24_GetPluginConfig ==
    last.op = "get_plugin_config" =>
       LET result == last.result.value
       IN /\ ~last.result.raised
          /\ plugin_configs[last.plugin] = result
          /\ ~last.again =>
                /\ DOMAIN last.defaults \subseteq DOMAIN result
                /\ \A attrname \in DOMAIN result :
                      result[attrname]
                         = FirstOf(SourcesOfLast, 1, attrname)
          /\ last.again => result = expansions[last.plugin].result

\* conf has a value for each attribute of the defaults that the plugin
\* was expanded with, and that of the added configuration if it has one
HasDefaults(conf, plugin) ==
    \A attrname \in DOMAIN expansions[plugin].defaults :
       /\ attrname \in DOMAIN conf
       /\ (plugin \in DOMAIN added_configs
             /\ attrname \in DOMAIN added_configs[plugin])
          => conf[attrname] = added_configs[plugin][attrname]

(* C30: in whatever order add_plugin_config(P, c) and get_plugin_config
   are called for a plugin P, the configuration that get_plugin_config
   returns for P, and that plugin_configs[P] holds once P is expanded, has
   a value for every attribute of the defaults, and the value of c where c
   has one. *)
C30_ConfigCompleteInAnyOrder ==
    /\ \A plugin \in _plugin_configs_expanded :
          HasDefaults(plugin_configs[plugin], plugin)
    /\ last.op = "get_plugin_config"
          => HasDefaults(last.result.value, last.plugin)

-----------------------------------------------------------------------------
(* load() of _pluginloader, called up to MaxLoads times for one
   application.  Importing a plugin
   module runs its body: its call of get_plugin_config, its endpoint
   decorators and the routes of its KorpEndpointPlugin; the classes it
   derives from KorpCallbackPlugin are the class definitions of the
   specifications above. *)

MaxLoads == 2        \* calls of load() that get to the plugin list

py_none == [type |-> "NoneType"]
py_function(name) == [type |-> "function", name |-> name]
py_list(items) == [type |-> "list", items |-> items]
py_dict(items) == [type |-> "dict", items |-> items]

ARGS_NAME == <<"ARGS_NAME">>
WRAP_NAME == <<"WRAP_NAME">>

\* @plugin.route(rule) def func
Route(rule, func) == [rule |-> rule, func |-> func]

\* the plugin modules that can be imported: korpplugins.test1, and a
\* top-level module test0 with an endpoint for the route /query
installed_modules ==
    (<<"korpplugins", "test1">> :>
        [is_init |-> TRUE,
         calls_config |-> TRUE,
         defaults |-> (ARGS_NAME :> "args_default")
                      @@ (WRAP_NAME :> "wrap_default"),
         PLUGIN_INFO |-> ("name" :> "korppluginlib test plugin 1"),
         decorators |-> <<py_function("test_decor")>>,
         routes |-> <<Route("/test", "test"),
                      Route("/query", "query"),
                      Route("/query", "query2"),
                      Route("/count", "count"),
                      Route("/count", "count2")>>])
    @@ (<<"test0">> :>
        [is_init |-> FALSE,
         calls_config |-> FALSE,
         defaults |-> empty_dict,
         PLUGIN_INFO |-> <<>>,
         decorators |-> <<>>,
         routes |-> <<Route("/query", "query")>>])

\* an item of plugin_list: a plugin name, or a pair (plugin name, config)
PluginItem(name) == [type |-> "str", name |-> name]
PluginPair(name, config) == [type |-> "tuple", name |-> name,
                             config |-> config]

test1_added == PluginPair("test1", ARGS_NAME :> "args_added")

\* the plugin lists given to load(): plugins that are found and one that
\* is not, in several orders, and test1 with a configuration
PluginLists ==
    {<<>>,
     <<PluginItem("test1")>>,
     <<PluginItem("test0")>>,
     <<PluginItem("missing")>>,
     <<test1_added>>,
     <<PluginItem("missing"), PluginItem("test1")>>,
     <<PluginItem("test1"), PluginItem("missing")>>,
     <<PluginItem("test1"), PluginItem("test0")>>,
     <<PluginItem("test0"), PluginItem("test1")>>,
     <<PluginItem("test1"), test1_added>>,
     <<PluginItem("test0"), PluginItem("missing"), PluginItem("test1")>>}

\* the decorators given to load()
DecoratorArgs ==
    {py_none,
     py_list(<<>>),
     py_list(<<py_function("prevent_timeout")>>),
     py_list(<<py_function("main_handler")>>),
     py_list(<<py_none>>),
     py_list(<<py_function("main_handler"), py_none>>)}

\* the app_globals given to load()
GlobalsArgs == {py_none, py_dict("app" :> "app")}

\* the values of pluginlibconf that load() is run with
HandleNotFound == {"ignore", "warn", "error"}
HandleDuplicateRoutes ==
    {"override", "override,warn", "ignore", "warn", "error"}

LoadInit ==
    /\ CoreInit
    /\ ConfigInit
    /\ \E not_found \in HandleNotFound, dupl \in HandleDuplicateRoutes :
          pluginlibconf =
             [_conf_defaults EXCEPT !.PACKAGES = <<"korpplugins", "">>,
                                    !.SEARCH_PATH = <<"/plugins">>,
                                    !.HANDLE_NOT_FOUND = not_found,
                                    !.HANDLE_DUPLICATE_ROUTES = dupl]
    /\ LoaderInit

\* any(decor.__name__ == "main_handler" for decor in decorators)
RECURSIVE any_main_handler(_, _)
any_main_handler(items, i) ==
    IF i > Len(items) THEN Return(FALSE)
    ELSE IF items[i].type = "NoneType"
         THEN Raise(Exception("AttributeError"))
         ELSE IF items[i].name = "main_handler" THEN Return(TRUE)
              ELSE any_main_handler(items, i + 1)

\* the test that load() begins with
check_decorators(decorators) ==
    IF decorators.type = "NoneType" \/ decorators.items = <<>>
    THEN Raise(Exception("ValueError"))
    ELSE LET found == any_main_handler(decorators.items, 1)
         IN IF found.raised THEN found
            ELSE IF ~found.value THEN Raise(Exception("ValueError"))
                 ELSE Return(None)

\* KorpEndpointPlugin.add_endpoint_decorators(decor_list)
add_endpoint_decorators(decors, decor_list) ==
    LET added == {i \in 1..Len(decor_list) :
                     decor_list[i].type # "NoneType"}
        names == {decor_list[i].name : i \in added}
    IN [name \in DOMAIN decors \cup names |->
           IF name \in names THEN py_function(name) ELSE decors[name]]

\* setattr(global_app_globals, name, val) for the items of app_globals
set_app_globals(globals, arg) ==
    LET given == IF arg.type = "NoneType" THEN <<>> ELSE arg.items
    IN given @@ globals

\* _find_plugin(plugin)
RECURSIVE find_in_packages(_, _, _)
find_in_packages(plugin, packages, i) ==
    IF i > Len(packages) THEN Raise(Exception("ModuleNotFoundError"))
    ELSE LET pkg == packages[i]
             module_name == IF pkg # "" THEN <<pkg, plugin>> ELSE <<plugin>>
         IN IF module_name \in DOMAIN installed_modules
            THEN Return(module_name)
            ELSE find_in_packages(plugin, packages, i + 1)

_find_plugin(plugin) == find_in_packages(plugin, pluginlibconf.PACKAGES, 1)

\* importlib.import_module(module_name) for a module that is there: the
\* body of the module is run when the module is imported first
import_module(st, module_name) ==
    IF module_name \in st.sys_modules THEN st
    ELSE LET m == installed_modules[module_name]
         IN [st EXCEPT
               !.sys_modules = @ \cup {module_name},
               !.conf = IF m.calls_config
                        THEN get_plugin_config_in(
                                @, Module(module_name, m.is_init), m.defaults)
                        ELSE @,
               !._endpoint_decorators =
                  add_endpoint_decorators(@, m.decorators),
               !._instances = IF m.routes # <<>> THEN @ \cup {module_name}
                              ELSE @]

\* loaded_plugins[plugin] = {"module": module};
\* loaded_plugins[plugin].update(module.PLUGIN_INFO)
set_loaded_plugin(loaded, plugin, module_name) ==
    LET entry == [name |-> plugin,
                  info |-> installed_modules[module_name].PLUGIN_INFO
                           @@ ("module" :> module_name)]
        at == {i \in 1..Len(loaded) : loaded[i].name = plugin}
    IN IF at = {} THEN Append(loaded, entry)
       ELSE [i \in 1..Len(loaded) |->
                IF i \in at THEN entry ELSE loaded[i]]

\* whether load() goes on with the rest of the list after a plugin that
\* was not found, aborting at every such plugin
not_found_continues_never(handle_not_found) == FALSE

\* whether load() goes on with the rest of the list after a plugin that
\* was not found
not_found_continues(handle_not_found) ==
    handle_not_found = "ignore" \/ handle_not_found = "warn"

\* for plugin in plugin_list: ..., from item i on
RECURSIVE load_plugins(_, _, _)
load_plugins(plugin_list, i, st) ==
    IF i > Len(plugin_list) THEN st
    ELSE LET item == plugin_list[i]
             plugin == item.name
             configured ==
                IF item.type = "tuple"
                THEN [st EXCEPT !.conf = add_plugin_config_in(
                                            @, plugin, item.config)]
                ELSE st
             module == _find_plugin(plugin)
         IN IF ~module.raised
            THEN load_plugins(
                    plugin_list, i + 1,
                    [import_module(configured, module.value) EXCEPT
                       !.loaded_plugins =
                          set_loaded_plugin(@, plugin, module.value)])
            ELSE IF not_found_continues(pluginlibconf.HANDLE_NOT_FOUND)
                 THEN load_plugins(plugin_list, i + 1, configured)
                 ELSE [configured EXCEPT !.raised = TRUE]

\* the orders in which a set may be iterated over
Orders(S) ==
    {order \in [1..Cardinality(S) -> S] :
        \A i, j \in 1..Cardinality(S) : order[i] = order[j] => i = j}

\* app.register_blueprint(bp): the routes of the blueprint become rules
register_blueprint(rules, bp) ==
    rules \o [i \in 1..Len(installed_modules[bp].routes) |->
                LET route == installed_modules[bp].routes[i]
                IN Rule(route.rule, bp \o <<route.func>>)]

\* KorpEndpointPlugin.register_all(app), iterating _instances in order
RECURSIVE register_all(_, _, _)
register_all(rules, order, i) ==
    IF i > Len(order) THEN rules
    ELSE register_all(register_blueprint(rules, order[i]), order, i + 1)

\* str(rule)
str(rule) == rule.rule

\* _find_key_duplicates(iterable, key_func=str): key -> the items with
\* that key, for the keys that several items have
_find_key_duplicates(iterable) ==
    LET keys == {str(iterable[i]) : i \in 1..Len(iterable)}
        item_dict == [item_key \in keys |->
                         SelectSeq(iterable,
                                   LAMBDA item : str(item) = item_key)]
    IN [item_key \in {k \in keys : Len(item_dict[k]) # 1} |->
           item_dict[item_key]]

\* list.remove(x): without the first item equal to x
list_remove(list, x) ==
    LET at == CHOOSE i \in 1..Len(list) :
                 list[i] = x /\ \A j \in 1..(i - 1) : list[j] # x
    IN SubSeq(list, 1, at - 1) \o SubSeq(list, at + 1, Len(list))

\* for rule in rules: url_map._rules.remove(rule)
RECURSIVE remove_rules(_, _)
remove_rules(list, rules) ==
    IF rules = <<>> THEN list
    ELSE remove_rules(list_remove(list, Head(rules)), Tail(rules))

\* for rule_name, rules in dupls.items(): remove all of rules but one
RECURSIVE remove_duplicates(_, _, _)
remove_duplicates(list, dupls, rule_names) ==
    IF rule_names = {} THEN list
    ELSE LET rule_name == CHOOSE name \in rule_names : TRUE
             rules == dupls[rule_name]
         IN remove_duplicates(
               remove_rules(list, SubSeq(rules, 1, Len(rules) - 1)),
               dupls, rule_names \ {rule_name})

\* _remove_duplicate_routing_rules keeping the first rule of a route
_remove_duplicate_routing_rules_first(rules) ==
    LET kept[i \in 0..Len(rules)] ==
           IF i = 0 THEN <<>>
           ELSE IF \E j \in 1..(i - 1) : str(rules[j]) = str(rules[i])
                THEN kept[i - 1]
                ELSE Append(kept[i - 1], rules[i])
    IN kept[Len(rules)]

\* _remove_duplicate_routing_rules(app)
_remove_duplicate_routing_rules(rules) ==
    LET dupls == _find_key_duplicates(rules)
    IN remove_duplicates(rules, dupls, DOMAIN dupls)

\* "override" in handle_mode
has_override(handle_mode) ==
    handle_mode = "override" \/ handle_mode = "override,warn"

\* _handle_duplicate_routing_rules(app)
_handle_duplicate_routing_rules(rules) ==
    LET handle_mode == pluginlibconf.HANDLE_DUPLICATE_ROUTES
    IN IF has_override(handle_mode)
       THEN [url_map |-> _remove_duplicate_routing_rules(rules),
             result |-> Return(None)]
       ELSE IF handle_mode = "warn" \/ handle_mode = "error"
            THEN LET dupls == _find_key_duplicates(rules)
                 IN [url_map |-> rules,
                     result |-> IF DOMAIN dupls # {} /\ handle_mode = "error"
                                THEN Raise(Exception("ValueError"))
                                ELSE Return(None)]
            ELSE [url_map |-> rules, result |-> Return(None)]

\* the state that the loop of load() works on
LoaderState ==
    [conf |-> ConfigState,
     loaded_plugins |-> loaded_plugins,
     _endpoint_decorators |-> _endpoint_decorators,
     _instances |-> _instances,
     sys_modules |-> sys_modules,
     raised |-> FALSE]

\* load(app, plugin_list, decorators, app_globals)
load(plugin_list, decorators, globals_arg) ==
    LET checked == check_decorators(decorators)
        called == [op |-> "load", plugin_list |-> plugin_list,
                   decorators |-> decorators, app_globals |-> globals_arg]
    IN /\ Idle
       /\ IF checked.raised
          THEN /\ last' = called @@ [reached |-> "check",
                                     registered |-> <<>>,
                                     result |-> checked]
               /\ UNCHANGED <<config_state, loader_state>>
          ELSE LET begun ==
                      [LoaderState EXCEPT
                         !._endpoint_decorators =
                            add_endpoint_decorators(@, decorators.items)]
                   st == load_plugins(plugin_list, 1, begun)
               IN /\ loads < MaxLoads
                  /\ loads' = loads + 1
                  /\ app_globals' = set_app_globals(app_globals, globals_arg)
                  \* saved_sys_path is the list sys.path itself, so the
                  \* later sys.path = saved_sys_path changes nothing
                  /\ sys_path' = sys_path \o pluginlibconf.SEARCH_PATH
                  /\ ConfigBecomes(st.conf)
                  /\ loaded_plugins' = st.loaded_plugins
                  /\ _endpoint_decorators' = st._endpoint_decorators
                  /\ _instances' = st._instances
                  /\ sys_modules' = st.sys_modules
                  /\ UNCHANGED pluginlibconf
                  /\ IF st.raised
                     THEN /\ url_map' = url_map
                          /\ last' =
                                called @@
                                [reached |-> "plugins",
                                 registered |-> <<>>,
                                 result |->
                                    Raise(Exception("ModuleNotFoundError"))]
                     ELSE \E order \in Orders(st._instances) :
                            LET registered ==
                                   register_all(url_map, order, 1)
                                handled ==
                                   _handle_duplicate_routing_rules(registered)
                            IN /\ url_map' = handled.url_map
                               /\ last' =
                                     called @@
                                     [reached |-> "end",
                                      registered |-> registered,
                                      result |-> handled.result]
       /\ HostFrame

\* get_loaded_plugins(names_only)
get_loaded_plugins(names_only) ==
    /\ Idle
    /\ last' =
          [op |-> "get_loaded_plugins", names_only |-> names_only,
           result |->
              Return(IF names_only
                     THEN [i \in 1..Len(loaded_plugins) |->
                              loaded_plugins[i].name]
                     ELSE [i \in 1..Len(loaded_plugins) |->
                              LET info == loaded_plugins[i].info
                              IN [name |-> loaded_plugins[i].name,
                                  info |-> [key \in DOMAIN info \ {"module"}
                                               |-> info[key]]]])]
    /\ UNCHANGED host
    /\ HostFrame

LoadNext ==
    \/ Resume /\ EnvFrame
    \/ \E plugin_list \in PluginLists,
          decorators \in DecoratorArgs, globals_arg \in GlobalsArgs :
          load(plugin_list, decorators, globals_arg)
    \/ \E names_only \in BOOLEAN : get_loaded_plugins(names_only)

LoadSpec == LoadInit /\ [][LoadNext]_vars

\* the rules of a route, in the order of the list
RulesFor(rules, route) == SelectSeq(rules, LAMBDA rule : rule.rule = route)

\* the routes of a list of rules
RoutesOf(rules) == {rules[i].rule : i \in 1..Len(rules)}

(* C25: after load() has registered the endpoints of all plugins it
   handles routes with several rules as HANDLE_DUPLICATE_ROUTES says: with
   "override" in the mode, of the rules of each route only the one added
   last remains, so no route has more than one rule; with "ignore" or
   "warn" the rules stay as they are, the first endpoint of a route being
   the one used; with "error" load() raises ValueError if and only if some
   route has more than one rule. *)
C25_DuplicateRoutesHandled ==
    (last.op = "load" /\ last.reached = "end") =>
       LET before == last.registered
           handle_mode == pluginlibconf.HANDLE_DUPLICATE_ROUTES
           several == {route \in RoutesOf(before) :
                          Len(RulesFor(before, route)) > 1}
       IN /\ handle_mode \in {"override", "override,warn"} =>
                /\ ~last.result.raised
                /\ \A route \in RoutesOf(before) :
                      LET rules == RulesFor(before, route)
                      IN RulesFor(url_map, route) = <<rules[Len(rules)]>>
                /\ RoutesOf(url_map) = RoutesOf(before)
          /\ handle_mode \in {"ignore", "warn"} =>
                /\ ~last.result.raised
                /\ url_map = before
                /\ \A route \in RoutesOf(before) :
                      Head(RulesFor(url_map, route))
                         = Head(RulesFor(before, route))
          /\ handle_mode = "error" =>
                (last.result = Raise(Exception("ValueError"))
                    <=> several # {})
          /\ handle_mode = "error" /\ several = {}
                => last.result = Return(None)

\* load() has registered the endpoints of test1 and test0, which with the
\* endpoint of Korp makes four rules for /query, and has overridden
C25_Witness ==
    /\ last.op = "load"
    /\ last.reached = "end"
    /\ pluginlibconf.HANDLE_DUPLICATE_ROUTES = "override,warn"
    /\ Len(RulesFor(last.registered, "/query")) = 4
    /\ Len(RulesFor(url_map, "/query")) = 1
    /\ Len(url_map) < Len(last.registered)

\* decorators is empty or has no function named main_handler
NoMainHandler(decorators) ==
    \/ decorators.type = "NoneType"
    \/ \A i \in 1..Len(decorators.items) :
          ~(decorators.items[i].type = "function"
            /\ decorators.items[i].name = "main_handler")

(* C26: load() called with decorators that are empty or have no function
   named main_handler raises ValueError and changes nothing before that:
   no endpoint decorator is added, app_globals is as it was, no plugin
   module is imported and loaded_plugins is as it was. *)
C26_LoadRequiresMainHandler ==
    [][(last'.op = "load" /\ NoMainHandler(last'.decorators)) =>
          /\ last'.result = Raise(Exception("ValueError"))
          /\ UNCHANGED <<_endpoint_decorators, app_globals, sys_modules,
                         loaded_plugins, config_state, loader_state>>]_vars

\* whether plugin is found in one of the packages of PACKAGES
Found(plugin) ==
    \E i \in 1..Len(pluginlibconf.PACKAGES) :
       LET pkg == pluginlibconf.PACKAGES[i]
       IN (IF pkg # "" THEN <<pkg, plugin>> ELSE <<plugin>>)
             \in DOMAIN installed_modules

\* the names of a list of plugins
NamesOf(plugins) == [i \in 1..Len(plugins) |-> plugins[i].name]

\* names, followed by those of more that are not yet among them
RECURSIVE WithNew(_, _)
WithNew(names, more) ==
    IF more = <<>> THEN names
    ELSE WithNew(IF Head(more) \in Range(names) THEN names
                 ELSE Append(names, Head(more)),
                 Tail(more))

\* the plugins of plugin_list that load() gets to: all of them if it goes
\* on after a plugin that is not found, else those before the first one
\* that is not found
Reached(plugin_list) ==
    LET names == NamesOf(plugin_list)
        missing == {i \in 1..Len(names) : ~Found(names[i])}
    IN IF pluginlibconf.HANDLE_NOT_FOUND \in {"ignore", "warn"}
          \/ missing = {}
       THEN names
       ELSE SubSeq(names, 1, Min(missing) - 1)

(* C29: load() never adds a plugin to loaded_plugins whose module is not
   found; with HANDLE_NOT_FOUND "ignore" or "warn" it goes on with the
   rest of the list in order and registers all endpoint blueprints at the
   end; with another value it raises ModuleNotFoundError at the first such
   plugin and does nothing more; loaded_plugins, and get_loaded_plugins,
   list exactly the plugins found, in the order they were loaded. *)
C29_NotFoundPluginsSkipped ==
    [][/\ last'.op = "load" /\ last'.reached # "check" =>
             LET names == NamesOf(last'.plugin_list)
                 lenient == pluginlibconf.HANDLE_NOT_FOUND
                               \in {"ignore", "warn"}
                 aborted == last'.result
                               = Raise(Exception("ModuleNotFoundError"))
             IN /\ \A i \in 1..Len(loaded_plugins') :
                      Found(loaded_plugins'[i].name)
                /\ NamesOf(loaded_plugins')
                      = WithNew(NamesOf(loaded_plugins),
                                SelectSeq(Reached(last'.plugin_list), Found))
                /\ lenient =>
                      /\ ~aborted
                      /\ last'.reached = "end"
                      /\ \A bp \in _instances' :
                            \A i \in 1..Len(installed_modules[bp].routes) :
                               \E j \in (Len(url_map) + 1)
                                         ..Len(last'.registered) :
                                  last'.registered[j] =
                                     Rule(installed_modules[bp].routes[i].rule,
                                          bp \o <<installed_modules[bp]
                                                     .routes[i].func>>)
                /\ ~lenient =>
                      /\ aborted <=> \E i \in 1..Len(names) :
                                        ~Found(names[i])
                      /\ aborted => /\ last'.reached = "plugins"
                                     /\ url_map' = url_map
       /\ last'.op = "get_loaded_plugins" =>
             /\ Len(last'.result.value) = Len(loaded_plugins)
             /\ \A i \in 1..Len(loaded_plugins) :
                   IF last'.names_only
                   THEN last'.result.value[i] = loaded_plugins[i].name
                   ELSE last'.result.value[i].name = loaded_plugins[i].name
      ]_vars

\* with "warn", load() has gone on after a plugin that is not found and
\* has loaded the plugin after it, next to one loaded before
C29_Witness ==
    /\ last.op = "load"
    /\ last.reached = "end"
    /\ pluginlibconf.HANDLE_NOT_FOUND = "warn"
    /\ NamesOf(last.plugin_list) = <<"test0", "missing", "test1">>
    /\ NamesOf(loaded_plugins) = <<"test0", "test1">>
    /\ Len(loaded_plugins) = 2

-----------------------------------------------------------------------------
(* Dispatches that return, dispatches in which a callback raises (Test6
   with an argument that is no dict) or a predicate raises (Test5 for a
   request without endpoint), and dispatches of a hook point that no class
   has a callback for. *)

FrameClasses == {"Test2", "Test5", "Test6"}
FrameHookPoints == {hook_x, nonexistent_hook}
FrameEndpoints == {"info", "None"}

FrameNext ==
    \/ Resume /\ EnvFrame
    \/ \E e \in FrameEndpoints : SetEndpoint(Request(1), e)
    \/ \E cls \in FrameClasses : DefineClass(cls) /\ EnvFrame
    \/ \E request \in Requests : Caller_init(request) /\ EnvFrame
    \/ \E self \in 1..MaxCallers : cleanup(self) /\ EnvFrame
    \/ \E self \in 1..MaxCallers, hook_point \in FrameHookPoints,
          v \in FailValues :
            call(self, hook_point, <<v>>, <<>>) /\ EnvFrame
    \/ \E self \in 1..MaxCallers, hook_point \in FrameHookPoints,
          v \in FailValues :
            call_collect(self, hook_point, <<v>>, <<>>) /\ EnvFrame
    \/ \E self \in 1..MaxCallers, hook_point \in FrameHookPoints,
          v \in FailValues :
            call_chain(self, hook_point, v, <<>>, <<>>) /\ EnvFrame

FrameSpec == Init /\ [][FrameNext]_vars

(* C31: call, call_collect and call_chain leave the table of Callers and
   the registry of callbacks as they are, whether the dispatch returns or
   a callback or a predicate raises, and also for a hook point that has no
   registration: looking it up makes no entry for it in the registry. *)
C31_DispatchChangesNoTable ==
    [][last'.op \in {"call", "call_collect", "call_chain"} =>
          /\ Caller_instances' = Caller_instances
          /\ _callbacks' = _callbacks
          /\ last'.hook_point \notin DOMAIN _callbacks
                => last'.hook_point \notin DOMAIN _callbacks']_vars

\* a hook point without registrations was dispatched by a Caller that is
\* in the table, with classes registered for other hook points
C31_Witness ==
    /\ Dispatched
    /\ last.hook_point = nonexistent_hook
    /\ ~last.result.raised
    /\ hook_x \in DOMAIN _callbacks
    /\ nonexistent_hook \notin DOMAIN _callbacks
    /\ id(DispatchRequest) \in DOMAIN Caller_instances
    /\ Caller_instances[id(DispatchRequest)] = last.self

\* a dispatch in which a predicate or a callback raised, with the Caller
\* still in the table
FrameRaised ==
    /\ Dispatched
    /\ last.result.raised
    /\ id(DispatchRequest) \in DOMAIN Caller_instances

-----------------------------------------------------------------------------
(* cleanup() of a Caller whose entry is gone, and of a Caller whose request
   has a second Caller. *)

\* the key of the Caller self in the table of Callers
KeyOf(self) == id(callers[self]._request)

(* C32: cleanup() of a Caller whose entry is no longer in the table of
   Callers (a second cleanup(), or cleanup() after that of another Caller
   of the same request) raises KeyError and leaves the table as it is; no
   cleanup() takes out the entry of another request. *)
C32_CleanupOfGoneEntryRaises ==
    [][last'.op = "cleanup" =>
          /\ KeyOf(last'.self) \notin DOMAIN Caller_instances
                => /\ last'.result = Raise(KeyError)
                   /\ Caller_instances' = Caller_instances
          /\ \A k \in DOMAIN Caller_instances \ {KeyOf(last'.self)} :
                /\ k \in DOMAIN Caller_instances'
                /\ Caller_instances'[k] = Caller_instances[k]]_vars

\* cleanup() raised for a Caller that was never cleaned up itself, its
\* entry having gone with the other Caller of the same request
C32_Witness ==
    /\ last.op = "cleanup"
    /\ last.result = Raise(KeyError)
    /\ last.self \notin cleaned_up
    /\ cleaned_up # {}

\* cleanup() raised for a Caller that was cleaned up before, while the
\* entry of another request stays in the table
CleanupTwice ==
    /\ last.op = "cleanup"
    /\ last.result = Raise(KeyError)
    /\ last.self \in cleaned_up
    /\ Caller_instances # <<>>

(* C33: cleanup() of a Caller takes an entry out of the table of Callers
   only if the entry is that Caller: after a second Caller was made for the
   same request, cleanup() of the first leaves the entry of the second, and
   get_instance keeps returning the second. *)
C33_CleanupRemovesOwnEntryOnly ==
    [][/\ last'.op = "cleanup"
       /\ KeyOf(last'.self) \in DOMAIN Caller_instances
       /\ Caller_instances[KeyOf(last'.self)] # last'.self
       => /\ Caller_instances' = Caller_instances
          /\ KeyOf(last'.self) \in DOMAIN Caller_instances'
          /\ Caller_instances'[KeyOf(last'.self)] =
                Caller_instances[KeyOf(last'.self)]]_vars

-----------------------------------------------------------------------------
(* A dispatch statement by statement, with callbacks that assign to the
   request.  The for loop of call, call_collect and call_chain takes the
   registrations in order; for each it calls applies_to and then, if that
   returned true, the callback.  The dispatch of the one thread there is
   here is threads[1]: the Caller, the registrations the loop runs over,
   the calls still to make, what applies_to returned, result or arg1, and
   the calls made. *)

EffectClasses == {"Test4a", "Test4b", "Test8"}
EffectEndpoints == {"info", "query"}

\* the calls of the loop over n registrations with every applies_to called
\* before the first callback
schedule_upfront(n) ==
    [k \in 1..(2 * n) |->
        IF k <= n THEN [ev |-> "applies_to", i |-> k]
        ELSE [ev |-> "callback", i |-> k - n]]

\* the calls of the loop over n registrations, in the order the loop comes
\* to them: "if applies_to(self._request): callback(...)" for the first
\* registration, then for the second, and so on
RECURSIVE schedule(_)
schedule(n) ==
    IF n = 0 THEN <<>>
    ELSE schedule(n - 1) \o <<[ev |-> "applies_to", i |-> n],
                              [ev |-> "callback", i |-> n]>>

\* no dispatch is under way
Quiet == threads[1].pc # "loop"

\* the dispatch method is entered on the Caller self for enter_handler:
\* result = [] in call_collect, arg1 in call_chain, and the loop starts
E_enter(self, kind, arg1) ==
    /\ Idle
    /\ Quiet
    /\ self \in 1..Len(callers)
    /\ LET regs == callbacks_get(enter_handler)
       IN threads' = <<[pc |-> "loop", self |-> self, kind |-> kind,
                        regs |-> regs, todo |-> schedule(Len(regs)),
                        verdict |-> <<>>,
                        acc |-> CASE kind = "call" -> None
                                  [] kind = "call_collect" -> <<>>
                                  [] kind = "call_chain" -> arg1,
                        entered |-> endpoint[Caller_request(self)],
                        result |-> Return(None), trace |-> <<>>]>>
    /\ DispatchFrame(enter_handler, TRUE)
    /\ UNCHANGED <<last, flask_request, endpoint, alive, dropped, prev,
                   host>>

\* the next call of the loop, or its end and the return statement
E_step ==
    /\ ~Quiet
    /\ LET me == threads[1]
           request == Caller_request(me.self)
       IN IF me.todo = <<>>
          THEN /\ threads' = [threads EXCEPT
                      ![1].pc = "done",
                      ![1].result = IF me.kind = "call" THEN Return(None)
                                    ELSE Return(me.acc)]
               /\ UNCHANGED endpoint
          ELSE LET i == Head(me.todo).i
                   callback == me.regs[i][1]
                   applies_to == me.regs[i][2]
               IN IF Head(me.todo).ev = "applies_to"
                  THEN LET applies == PyCall(applies_to, <<request>>, <<>>)
                           ev1 == Event("applies_to", applies_to,
                                        <<request>>, <<>>, applies)
                       IN /\ threads' = [threads EXCEPT
                                ![1].pc = IF propagates(applies)
                                          THEN "done" ELSE "loop",
                                ![1].result = IF propagates(applies)
                                              THEN applies ELSE me.result,
                                ![1].todo = Tail(me.todo),
                                ![1].verdict = (i :> truth(applies))
                                               @@ me.verdict,
                                ![1].trace = Append(me.trace, ev1)]
                          /\ UNCHANGED endpoint
                  ELSE IF ~me.verdict[i]
                  THEN /\ threads' = [threads EXCEPT
                                         ![1].todo = Tail(me.todo)]
                       /\ UNCHANGED endpoint
                  ELSE LET posargs == IF me.kind = "call_chain"
                                      THEN chain_args(me.acc, <<>>, request)
                                      ELSE callback_args(<<>>, request)
                           retval == PyCall(callback, posargs, <<>>)
                           ev2 == Event("callback", callback, posargs,
                                        <<>>, retval)
                       IN /\ threads' = [threads EXCEPT
                                ![1].pc = IF propagates(retval)
                                          THEN "done" ELSE "loop",
                                ![1].result = IF propagates(retval)
                                              THEN retval ELSE me.result,
                                ![1].todo = Tail(me.todo),
                                ![1].acc =
                                   CASE propagates(retval) -> me.acc
                                     [] me.kind = "call" -> me.acc
                                     [] me.kind = "call_collect" ->
                                           collect_retval(me.acc,
                                                          retval.value)
                                     [] me.kind = "call_chain" ->
                                           chain_retval(me.acc,
                                                        retval.value),
                                ![1].trace = Append(me.trace, ev2)]
                          /\ endpoint' = request_after(callback, posargs)
    /\ UNCHANGED <<_subclasses, _callbacks, Singleton_instances, ctor_runs,
                   callers, Caller_instances, cleaned_up, last,
                   flask_request, alive, dropped, prev, host>>

EffectInit ==
    /\ _subclasses = <<>>
    /\ _callbacks = <<>>
    /\ Singleton_instances = <<>>
    /\ ctor_runs = [cls \in AllClasses |-> 0]
    /\ callers = <<>>
    /\ Caller_instances = <<>>
    /\ cleaned_up = {}
    /\ last = [op |-> "idle"]
    /\ flask_request = Request(1)
    /\ endpoint = [r \in AllRequests |-> request_endpoint_received(r)]
    /\ alive = Requests
    /\ dropped = {}
    /\ prev = [op |-> "idle"]
    /\ threads = <<[pc |-> "start", self |-> 0, kind |-> "call",
                    regs |-> <<>>, todo |-> <<>>, verdict |-> <<>>,
                    acc |-> None, entered |-> "None",
                    result |-> Return(None), trace |-> <<>>]>>
    /\ functionplugin = functionplugin_imported
    /\ HostInit

EffectNext ==
    \/ Resume /\ EnvFrame
    \/ \E r \in Requests, e \in EffectEndpoints :
          Quiet /\ SetEndpoint(r, e)
    \/ \E cls \in EffectClasses : Quiet /\ DefineClass(cls) /\ EnvFrame
    \/ \E request \in Requests : Quiet /\ Caller_init(request) /\ EnvFrame
    \/ \E self \in 1..MaxCallers, kind \in DispatchKinds,
          arg1 \in ChainValues : E_enter(self, kind, arg1)
    \/ E_step

EffectSpec == EffectInit /\ [][EffectNext]_vars

\* the position of the registration a call of the dispatch belongs to
RegOf(e) ==
    CHOOSE i \in 1..Len(threads[1].regs) :
        e.func \in {threads[1].regs[i][1], threads[1].regs[i][2]}

\* what applies_to of a class of EffectClasses says of a request with the
\* endpoint e
HoldsOf(cls, e) ==
    CASE cls = "Test4a" -> e = "info"
      [] cls = "Test4b" -> e # "info"
      [] cls = "Test8" -> TRUE

\* the positions from i on of the registrations whose callback is to be
\* called when the request has the endpoint e as the loop comes to i: the
\* callback of Test8 makes the endpoint "info"
RECURSIVE FiresFrom(_, _, _)
FiresFrom(regs, i, e) ==
    IF i > Len(regs) THEN {}
    ELSE LET cls == ClassOf(regs[i][1])
         IN IF HoldsOf(cls, e)
            THEN {i} \cup FiresFrom(regs, i + 1,
                                    IF cls = "Test8" THEN "info" ELSE e)
            ELSE FiresFrom(regs, i + 1, e)

\* the positions of the registrations whose callback the dispatch called
Fired ==
    {RegOf(threads[1].trace[k]) :
        k \in {k \in 1..Len(threads[1].trace) :
                  threads[1].trace[k].ev = "callback"}}

(* C34: in a dispatch the predicate of a registration is called right
   before the callback of that registration would be, after the callbacks
   of the registrations before it: the calls go through the registrations
   in order, every callback call comes right after the call of its own
   predicate, which returned true, and what an earlier callback has
   assigned to the request decides whether a later callback is called. *)
C34_PredicateRightBeforeCallback ==
    LET me == threads[1]
        n == Len(me.trace)
    IN me.pc \in {"loop", "done"} =>
          /\ \A k \in 1..n :
                me.trace[k].ev = "callback" =>
                   /\ k > 1
                   /\ me.trace[k - 1].ev = "applies_to"
                   /\ me.trace[k - 1].func = me.regs[RegOf(me.trace[k])][2]
                   /\ me.trace[k - 1].result = Return(TRUE)
          /\ \A j, k \in 1..n :
                j < k => RegOf(me.trace[j]) <= RegOf(me.trace[k])
          /\ me.pc = "done" => Fired = FiresFrom(me.regs, 1, me.entered)

\* Test4b, Test8 and Test4a in this order and a request with the endpoint
\* "query": the callback of Test4b was called before that of Test8 made
\* the endpoint "info", and that of Test4a after it
C34_Witness ==
    /\ threads[1].pc = "done"
    /\ _subclasses = <<"Test4b", "Test8", "Test4a">>
    /\ threads[1].entered = "query"
    /\ Fired = {1, 2, 3}
    /\ Len(threads[1].trace) = 6

-----------------------------------------------------------------------------
(* Plugin classes derived from plugin classes: Test9 is derived from Test2
   and inherits its callbacks for filter_result, x and y. *)

DerivedClasses == {"Test2", "Test4a", "Test9"}
DerivedHookPoints == {hook_x, hook_w}

DerivedNext ==
    \/ Resume /\ EnvFrame
    \/ \E cls \in DerivedClasses : DefineClass(cls) /\ EnvFrame
    \/ \E request \in Requests : Caller_init(request) /\ EnvFrame
    \/ \E self \in 1..MaxCallers, hook_point \in DerivedHookPoints :
            call(self, hook_point, <<>>, <<>>) /\ EnvFrame
    \/ \E self \in 1..MaxCallers, hook_point \in DerivedHookPoints :
            call_collect(self, hook_point, <<>>, <<>>) /\ EnvFrame
    \/ \E self \in 1..MaxCallers, hook_point \in DerivedHookPoints,
          arg1 \in ChainValues :
            call_chain(self, hook_point, arg1, <<>>, <<>>) /\ EnvFrame

DerivedSpec == Init /\ [][DerivedNext]_vars

\* the classes whose class statements give cls its attributes, the nearest
\* first, KorpCallbackPlugin and object left out
BodiesOf(cls) == IF cls = "Test9" THEN <<"Test9", "Test2">> ELSE <<cls>>

\* the class among those whose body has the attribute name that cls gets
\* it from
DefinedIn(cls, name) ==
    BodiesOf(cls)[CHOOSE i \in 1..Len(BodiesOf(cls)) :
                     /\ name \in DOMAIN ClassBodies[BodiesOf(cls)[i]]
                     /\ \A j \in 1..(i - 1) :
                           name \notin DOMAIN ClassBodies[BodiesOf(cls)[j]]]

\* the singleton of cls has a qualifying attribute called name
Qualifies(cls, name) ==
    /\ \E i \in 1..Len(BodiesOf(cls)) :
          name \in DOMAIN ClassBodies[BodiesOf(cls)[i]]
    /\ Head(name) \in Lower
    /\ name \notin DOMAIN ClassBodies[KorpCallbackPlugin]
    /\ ClassBodies[DefinedIn(cls, name)][name].callable

\* the classes of the registrations of hook point name, in order
ClassesOf(name) ==
    [i \in 1..Len(_callbacks[name]) |-> ClassOf(_callbacks[name][i][1])]

\* the entry of every hook point has one registration for each defined
\* class whose singleton has a qualifying attribute of that name, in the
\* order of the class definitions, and no hook point has an empty entry
OnePerClass ==
    /\ \A name \in DOMAIN _callbacks :
          /\ ClassesOf(name) =
                SelectSeq(_subclasses, LAMBDA cls : Qualifies(cls, name))
          /\ ClassesOf(name) # <<>>
    /\ \A cls \in Range(_subclasses), name \in HookPoints :
          Qualifies(cls, name) => name \in DOMAIN _callbacks

\* the method definition a registered callback is: class and name
MethodOf(callback) == callback.qualname

(* C35 as stated: after any sequence of plugin class definitions the entry
   of a hook point has exactly one registration for each defined plugin
   class whose singleton has a qualifying attribute of that name, in the
   order of the class definitions; every method is registered under at
   most one class, and a dispatch calls each method definition at most
   once, also when a plugin class is derived from another. *)
C35_EachMethodRegisteredOnce ==
    /\ OnePerClass
    /\ \A name \in DOMAIN _callbacks :
          \A i, j \in 1..Len(_callbacks[name]) :
             i # j => MethodOf(_callbacks[name][i][1])
                         # MethodOf(_callbacks[name][j][1])
    /\ Dispatched =>
          \A j, k \in 1..Len(CallbackEvents) :
             j # k => MethodOf(CallbackEvents[j].func)
                         # MethodOf(CallbackEvents[k].func)

(* C35 as it holds: after any sequence of plugin class definitions the
   entry of a hook point has exactly one registration for each defined
   plugin class whose singleton has a qualifying attribute of that name, in
   the order of the class definitions; a method is registered once for
   every defined class that defines or inherits it, bound to the singleton
   of that class, so a dispatch calls each method definition at most once
   for each such class: once for a class that is derived from no plugin
   class, and again for a plugin class derived from the class that defines
   the method. *)
C35_EachMethodRegisteredPerClass ==
    /\ OnePerClass
    /\ \A name \in DOMAIN _callbacks :
          \A i \in 1..Len(_callbacks[name]) :
             LET callback == _callbacks[name][i][1]
             IN /\ MethodOf(callback)
                      = <<DefinedIn(ClassOf(callback), name), name>>
                /\ callback.im_self = Singleton_instances[ClassOf(callback)]
    /\ Dispatched =>
          /\ \A j, k \in 1..Len(CallbackEvents) :
                j # k => CallbackEvents[j].func # CallbackEvents[k].func
          /\ \A k \in 1..Len(CallbackEvents) :
                \E i \in 1..Len(callbacks_get(last.hook_point)) :
                   callbacks_get(last.hook_point)[i][1]
                      = CallbackEvents[k].func

\* x was dispatched with Test2 and Test9 defined: the method Test2.x was
\* called twice, for the singleton of Test2 and for that of Test9
C35_Witness ==
    /\ Dispatched
    /\ last.hook_point = hook_x
    /\ _subclasses = <<"Test2", "Test9">>
    /\ Len(CallbackEvents) = 2
    /\ MethodOf(CallbackEvents[1].func) = <<"Test2", hook_x>>
    /\ MethodOf(CallbackEvents[2].func) = <<"Test2", hook_x>>
    /\ ClassOf(CallbackEvents[2].func) = "Test9"

-----------------------------------------------------------------------------
(* C36: load() leaves sys.path as it was before the call: the directories
   of SEARCH_PATH it appends for finding the plugins are not in sys.path
   any more when it returns, and sys.path does not grow with the calls of
   load(). *)
C36_LoadRestoresSysPath ==
    [][last'.op = "load" => sys_path' = sys_path]_vars

-----------------------------------------------------------------------------
(* korpplugins._functionplugin: KorpFunctionPlugin, its metaclass and
   KorpFunctionPluginCaller, the classes that korppluginlib._callbackplugin
   was made from.  A plugin function is registered for a mount point
   without a predicate.  Every operation is given the attributes of the
   classes of the module, m, and gives what they are after it. *)

KorpFunctionPlugin == "KorpFunctionPlugin"

\* attrs of "class KorpFunctionPlugin(metaclass=...)", whose body is pass
KorpFunctionPlugin_attrs ==
    (dunder_module :> Value) @@ (dunder_qualname :> Value)
    @@ (dunder_doc :> Value)

\* KorpFunctionPlugin._base_methods
F_base_methods == DOMAIN KorpFunctionPlugin_attrs

\* dir(inst) for an instance of "class cls(KorpFunctionPlugin)"
F_dir(cls) ==
    DOMAIN ClassAttrs(cls) \cup DOMAIN KorpFunctionPlugin_attrs
       \cup DOMAIN ClassAttrs(object)

\* getattr(inst, name) for such an instance
F_getattr(inst, name) ==
    LET def == IF name \in DOMAIN ClassAttrs(inst.cls) THEN inst.cls
               ELSE IF name \in DOMAIN KorpFunctionPlugin_attrs
               THEN KorpFunctionPlugin ELSE object
        a == IF def = KorpFunctionPlugin THEN KorpFunctionPlugin_attrs[name]
             ELSE ClassAttrs(def)[name]
    IN [callable |-> a.callable, im_self |-> inst,
        qualname |-> <<def, name>>, body |-> a.body]

\* Singleton.__call__(cls) of the module
F_Singleton_call(cls, instances) ==
    IF cls \notin DOMAIN instances
    THEN LET inst == [cls |-> cls, serial |-> 1,
                      base |-> KorpFunctionPlugin]
             init == type_call(cls)
         IN IF init.raised
            THEN [instances |-> instances, raised |-> TRUE,
                  result |-> init.value]
            ELSE [instances |-> (cls :> inst) @@ instances,
                  raised |-> FALSE, result |-> inst]
    ELSE [instances |-> instances, raised |-> FALSE,
          result |-> instances[cls]]

\* the loop of KorpFunctionPluginMetaclass.__init__ over dir(inst)
RECURSIVE F_register(_, _, _)
F_register(names, inst, funcs) ==
    IF names = {} THEN funcs
    ELSE LET name == CHOOSE n \in names : TRUE
             attr == F_getattr(inst, name)
         IN F_register(names \ {name}, inst,
               IF /\ islower(name[1])
                  /\ attr.callable
                  /\ name \notin F_base_methods
               THEN defaultdict_append(funcs, name, attr)
               ELSE funcs)

\* a class statement "class cls(KorpFunctionPlugin)" with the body of cls
F_DefineClass(m, cls) ==
    LET made == F_Singleton_call(cls, m.Singleton_instances)
    IN [m EXCEPT
          !._subclasses = Append(@, cls),
          !.Singleton_instances = made.instances,
          !._plugin_funcs = IF made.raised THEN @
                            ELSE F_register(F_dir(cls), made.result, @),
          !.last = [op |-> "class", cls |-> cls,
                    result |-> IF made.raised THEN Raise(made.result)
                               ELSE Return(None)]]

\* KorpFunctionPluginCaller(request)
F_Caller_init(m, request) ==
    LET self == Len(m.callers) + 1
        obj == _get_request_obj(request)
    IN [m EXCEPT
          !.callers = Append(@, [_request |-> obj]),
          !._instances = dict_setitem(@, id(obj), self),
          !.last = [op |-> "__init__", request |-> request,
                    result |-> Return(self)]]

\* the value of KorpFunctionPluginCaller.get_instance(request)
F_get_instance_result(m, request) ==
    LET request_obj == _get_request_obj(request)
    IN IF id(request_obj) \in DOMAIN m._instances
       THEN Return(m._instances[id(request_obj)])
       ELSE Raise(KeyError)

\* KorpFunctionPluginCaller.get_instance(request)
F_get_instance(m, request) ==
    [m EXCEPT !.last = [op |-> "get_instance", request |-> request,
                        result |-> F_get_instance_result(m, request)]]

\* self.cleanup()
F_cleanup(m, self) ==
    LET key == id(m.callers[self]._request)
    IN IF key \in DOMAIN m._instances
       THEN [m EXCEPT
               !._instances = [k \in DOMAIN m._instances \ {key} |->
                                  m._instances[k]],
               !.last = [op |-> "cleanup", self |-> self,
                         result |-> Return(None)]]
       ELSE [m EXCEPT
               !.last = [op |-> "cleanup", self |-> self,
                         result |-> Raise(KeyError)]]

\* KorpFunctionPlugin._plugin_funcs.get(mount_point, [])
plugin_funcs_get(m, mount_point) ==
    IF mount_point \in DOMAIN m._plugin_funcs
    THEN m._plugin_funcs[mount_point] ELSE <<>>

\* the loop of KorpFunctionPluginCaller.call, from the i-th function on
RECURSIVE F_call_loop(_, _, _, _, _, _)
F_call_loop(funcs, i, request, args, kwargs, trace) ==
    IF i > Len(funcs) THEN [result |-> Return(None), trace |-> trace]
    ELSE LET posargs == args \o <<request>>
             retval == PyCall(funcs[i], posargs, kwargs)
             trace1 == Append(trace, Event("callback", funcs[i], posargs,
                                           kwargs, retval))
         IN IF retval.raised
            THEN [result |-> retval, trace |-> trace1]
            ELSE F_call_loop(funcs, i + 1, request, args, kwargs, trace1)

\* the loop of KorpFunctionPluginCaller.call_collect
RECURSIVE F_call_collect_loop(_, _, _, _, _, _, _)
F_call_collect_loop(funcs, i, request, args, kwargs, result, trace) ==
    IF i > Len(funcs) THEN [result |-> Return(result), trace |-> trace]
    ELSE LET posargs == args \o <<request>>
             retval == PyCall(funcs[i], posargs, kwargs)
             trace1 == Append(trace, Event("callback", funcs[i], posargs,
                                           kwargs, retval))
         IN IF retval.raised
            THEN [result |-> retval, trace |-> trace1]
            ELSE F_call_collect_loop(
                    funcs, i + 1, request, args, kwargs,
                    IF retval.value # None
                    THEN Append(result, retval.value) ELSE result,
                    trace1)

\* the loop of KorpFunctionPluginCaller.call_chain
RECURSIVE F_call_chain_loop(_, _, _, _, _, _, _)
F_call_chain_loop(funcs, i, request, arg1, args, kwargs, trace) ==
    IF i > Len(funcs) THEN [result |-> Return(arg1), trace |-> trace]
    ELSE LET posargs == <<arg1>> \o args \o <<request>>
             retval == PyCall(funcs[i], posargs, kwargs)
             trace1 == Append(trace, Event("callback", funcs[i], posargs,
                                           kwargs, retval))
         IN IF retval.raised
            THEN [result |-> retval, trace |-> trace1]
            ELSE F_call_chain_loop(
                    funcs, i + 1, request,
                    IF retval.value # None THEN retval.value ELSE arg1,
                    args, kwargs, trace1)

\* self.call(mount_point, args, kwargs)
F_call(m, self, mount_point, args, kwargs) ==
    LET done == F_call_loop(plugin_funcs_get(m, mount_point), 1,
                            m.callers[self]._request, args, kwargs, <<>>)
    IN [m EXCEPT !.last = [op |-> "call", self |-> self,
                           hook_point |-> mount_point,
                           args |-> args, kwargs |-> kwargs,
                           result |-> done.result, trace |-> done.trace]]

\* self.call_collect(mount_point, args, kwargs)
F_call_collect(m, self, mount_point, args, kwargs) ==
    LET done == F_call_collect_loop(plugin_funcs_get(m, mount_point), 1,
                                    m.callers[self]._request, args, kwargs,
                                    <<>>, <<>>)
    IN [m EXCEPT !.last = [op |-> "call_collect", self |-> self,
                           hook_point |-> mount_point,
                           args |-> args, kwargs |-> kwargs,
                           result |-> done.result, trace |-> done.trace]]

\* self.call_chain(mount_point, arg1, args, kwargs)
F_call_chain(m, self, mount_point, arg1, args, kwargs) ==
    LET done == F_call_chain_loop(plugin_funcs_get(m, mount_point), 1,
                                  m.callers[self]._request, arg1, args,
                                  kwargs, <<>>)
    IN [m EXCEPT !.last = [op |-> "call_chain", self |-> self,
                           hook_point |-> mount_point, arg1 |-> arg1,
                           args |-> args, kwargs |-> kwargs,
                           result |-> done.result, trace |-> done.trace]]

-----------------------------------------------------------------------------
(* The two modules side by side: every class statement is made with both
   base classes, and every operation is done on both Callers with the same
   arguments.  The plugin classes are those that leave applies_to as
   KorpCallbackPlugin has it, returning true. *)

BothClasses == {"Test2", "Test3", "Test6"}
BothHookPoints == {hook_x, hook_w, filter_result, nonexistent_hook}

\* what an operation on both modules leaves unchanged
BothFrame ==
    UNCHANGED <<flask_request, endpoint, alive, dropped, prev, threads,
                config_state, loader_state>>

BothResume ==
    /\ Resume
    /\ functionplugin' = [functionplugin EXCEPT !.last = [op |-> "idle"]]
    /\ BothFrame

BothNext ==
    \/ BothResume
    \/ \E cls \in BothClasses :
          /\ DefineClass(cls)
          /\ functionplugin' = F_DefineClass(functionplugin, cls)
          /\ BothFrame
    \/ \E request \in Requests :
          /\ Caller_init(request)
          /\ functionplugin' = F_Caller_init(functionplugin, request)
          /\ BothFrame
    \/ \E request \in Requests :
          /\ get_instance(request)
          /\ functionplugin' = F_get_instance(functionplugin, request)
          /\ BothFrame
    \/ \E self \in 1..MaxCallers :
          /\ cleanup(self)
          /\ functionplugin' = F_cleanup(functionplugin, self)
          /\ BothFrame
    \/ \E self \in 1..MaxCallers, hook_point \in BothHookPoints,
          v \in FailValues :
          /\ call(self, hook_point, <<v>>, <<>>)
          /\ functionplugin' =
                F_call(functionplugin, self, hook_point, <<v>>, <<>>)
          /\ BothFrame
    \/ \E self \in 1..MaxCallers, hook_point \in BothHookPoints,
          v \in FailValues :
          /\ call_collect(self, hook_point, <<v>>, <<>>)
          /\ functionplugin' =
                F_call_collect(functionplugin, self, hook_point, <<v>>,
                               <<>>)
          /\ BothFrame
    \/ \E self \in 1..MaxCallers, hook_point \in BothHookPoints,
          v \in FailValues :
          /\ call_chain(self, hook_point, v, <<>>, <<>>)
          /\ functionplugin' =
                F_call_chain(functionplugin, self, hook_point, v, <<>>,
                             <<>>)
          /\ BothFrame

BothSpec == Init /\ [][BothNext]_vars

\* what a sequence of call records says was called: method, arguments and
\* outcome of every call, in order
CallsOf(events) ==
    [k \in 1..Len(events) |->
        [method |-> events[k].func.qualname, cls |-> ClassOf(events[k].func),
         args |-> events[k].args, kwargs |-> events[k].kwargs,
         result |-> events[k].result]]

\* the methods of a sequence of registered callables, in order
MethodsOf(funcs) ==
    [i \in 1..Len(funcs) |->
        <<ClassOf(funcs[i]), funcs[i].qualname>>]

\* every applies_to the last dispatch called returned true
AllApply ==
    \A k \in 1..Len(PredicateEvents) :
       PredicateEvents[k].result = Return(TRUE)

(* C37: with plugins whose applies_to returns true,
   KorpCallbackPluginCaller and KorpFunctionPluginCaller do the same: with
   the same methods registered, call, call_collect and call_chain of both
   call the same methods in the same order with the same arguments and
   return the same, or raise the same; and construction, get_instance and
   cleanup return the same and leave the two tables of Callers the same. *)
C37_CallersEquivalent ==
    LET m == functionplugin
    IN /\ DOMAIN m._plugin_funcs = DOMAIN _callbacks
       /\ \A name \in DOMAIN _callbacks :
             MethodsOf(m._plugin_funcs[name])
                = MethodsOf([i \in 1..Len(_callbacks[name]) |->
                                _callbacks[name][i][1]])
       /\ m._instances = Caller_instances
       /\ m.callers = callers
       /\ m.last.op = last.op
       /\ last.op \in {"__init__", "get_instance", "cleanup"} =>
             m.last.result = last.result
       /\ (Dispatched /\ AllApply) =>
             /\ m.last.result = last.result
             /\ CallsOf(m.last.trace) = CallsOf(CallbackEvents)

\* call_chain was done on both Callers for a hook point with two
\* registrations, after a cleanup of another Caller, and both called two
\* methods
C37_Witness ==
    /\ last.op = "call_chain"
    /\ Len(CallbackEvents) = 2
    /\ Len(functionplugin.last.trace) = 2
    /\ Len(callbacks_get(last.hook_point)) = 2
    /\ cleaned_up # {}
    /\ Caller_instances # <<>>

\* a dispatch on both Callers in which a method raised
BothRaised ==
    /\ Dispatched
    /\ last.result.raised
    /\ functionplugin.last.result.raised
    /\ Len(functionplugin.last.trace) = 2

=============================================================================
